---------------------------- MODULE Spec2Model ----------------------------
(***************************************************************************)
(* Verification model of caliptra-mcu-sw:                                  *)
(*   common/otp-digest  : PRESENT block cipher and the OTP digest          *)
(*   common/pds         : platform descriptor store parser                 *)
(*                                                                         *)
(* Machine words.  TLC integers are 32 bit, so                             *)
(*   - a u64 / u128 is a sequence of 64 / 128 bits, element k+1 = bit k;   *)
(*   - a byte is an integer 0..255.                                        *)
(* Every bit vector is built with Bits(), which yields an explicit tuple.  *)
(***************************************************************************)
EXTENDS Integers, Sequences, FiniteSets, TLC

(***************************************************************************)
(* Bit-vector helpers (Rust integer operators on u64 / u128).              *)
(***************************************************************************)
Bits(f) == f \o <<>>

Pow2(n) == IF n = 0 THEN 1 ELSE IF n = 1 THEN 2 ELSE IF n = 2 THEN 4
           ELSE IF n = 3 THEN 8 ELSE IF n = 4 THEN 16 ELSE IF n = 5 THEN 32
           ELSE IF n = 6 THEN 64 ELSE IF n = 7 THEN 128 ELSE 256

\* bit j of the small unsigned integer v (v < 256)
BitOf(v, j) == IF j > 7 THEN 0 ELSE (v \div Pow2(j)) % 2

\* a ^ b
Xor(a, b) == Bits([k \in 1..Len(a) |-> (a[k] + b[k]) % 2])

\* a | b
Or(a, b) == Bits([k \in 1..Len(a) |-> IF a[k] + b[k] > 0 THEN 1 ELSE 0])

\* a << n, bits shifted past the width are lost
Shl(a, n) == Bits([k \in 1..Len(a) |-> IF k - n >= 1 THEN a[k - n] ELSE 0])

\* a >> n
Shr(a, n) == Bits([k \in 1..Len(a) |-> IF k + n <= Len(a) THEN a[k + n] ELSE 0])

\* a & (2^n - 1)
LowMask(a, n) == Bits([k \in 1..Len(a) |-> IF k <= n THEN a[k] ELSE 0])

\* (a as u64): the low 64 bits
AsU64(a) == SubSeq(a, 1, 64)

\* (v as u128) << n for a small integer v
SmallShl128(v, n) == Bits([k \in 1..128 |-> IF k - 1 >= n THEN BitOf(v, k - 1 - n) ELSE 0])

\* the 4-bit value (a >> n) & 0xF
Nib(a, n) == a[n + 1] + 2 * a[n + 2] + 4 * a[n + 3] + 8 * a[n + 4]

\* uN::from_le_bytes: byte k supplies bits 8k .. 8k+7
from_le_bytes(bytes) ==
    Bits([k \in 1..(8 * Len(bytes)) |-> BitOf(bytes[((k - 1) \div 8) + 1], (k - 1) % 8)])

\* uN::to_le_bytes
to_le_bytes(a) ==
    Bits([k \in 1..(Len(a) \div 8) |->
            a[8 * k - 7] + 2 * a[8 * k - 6] + 4 * a[8 * k - 5] + 8 * a[8 * k - 4]
            + 16 * a[8 * k - 3] + 32 * a[8 * k - 2] + 64 * a[8 * k - 1] + 128 * a[8 * k]])

(***************************************************************************)
(* PRESENT cipher tables (otp-digest/src/lib.rs).  Table entry v is at     *)
(* sequence index v+1.                                                     *)
(***************************************************************************)
ROUNDS == 32

S_BOX == <<12, 5, 6, 11, 9, 0, 10, 13, 3, 14, 15, 8, 4, 7, 1, 2>>

S_BOX_INV == <<5, 14, 15, 8, 12, 1, 2, 13, 11, 4, 6, 3, 0, 7, 9, 10>>

P_BOX == << 0, 16, 32, 48,  1, 17, 33, 49,  2, 18, 34, 50,  3, 19, 35, 51,
            4, 20, 36, 52,  5, 21, 37, 53,  6, 22, 38, 54,  7, 23, 39, 55,
            8, 24, 40, 56,  9, 25, 41, 57, 10, 26, 42, 58, 11, 27, 43, 59,
           12, 28, 44, 60, 13, 29, 45, 61, 14, 30, 46, 62, 15, 31, 47, 63 >>

P_BOX_INV == << 0,  4,  8, 12, 16, 20, 24, 28, 32, 36, 40, 44, 48, 52, 56, 60,
                1,  5,  9, 13, 17, 21, 25, 29, 33, 37, 41, 45, 49, 53, 57, 61,
                2,  6, 10, 14, 18, 22, 26, 30, 34, 38, 42, 46, 50, 54, 58, 62,
                3,  7, 11, 15, 19, 23, 27, 31, 35, 39, 43, 47, 51, 55, 59, 63 >>

\* output |= (box[(state >> i) & 0xf] as u64) << i, for i = 0, 4, .., 60
SubstituteNibbles(box, state) ==
    Bits([k \in 1..64 |-> BitOf(box[Nib(state, 4 * ((k - 1) \div 4)) + 1], (k - 1) % 4)])

\* output |= ((state >> i) & 1) << box[i], for i = 0 .. 63
PermuteBits(box, state) ==
    Bits([k \in 1..64 |->
            IF \E i \in 1..64 : box[i] = k - 1 /\ state[i] = 1 THEN 1 ELSE 0])

s_box_layer(state) == SubstituteNibbles(S_BOX, state)

s_box_layer_dec(state) == SubstituteNibbles(S_BOX_INV, state)

p_box_layer(state) == PermuteBits(P_BOX, state)

p_box_layer_dec(state) == PermuteBits(P_BOX_INV, state)

(***************************************************************************)
(* Key schedules.                                                          *)
(***************************************************************************)
\* padded[6..16].copy_from_slice(key); u128::from_le_bytes(padded)
PadKey80(key) == from_le_bytes(<<0, 0, 0, 0, 0, 0>> \o key)

\* one iteration of the 80-bit schedule on the key register, i counted from 0
UpdateKey80(key, i) ==
    LET rot   == Or(Shl(LowMask(key, 19), 61), Shr(key, 19))
        sbox  == Or(SmallShl128(S_BOX[Nib(rot, 76) + 1], 76), LowMask(rot, 76))
    IN  Xor(sbox, SmallShl128(i + 1, 15))

RECURSIVE RoundKeys80(_, _, _)
RoundKeys80(key, i, round_keys) ==
    IF i = ROUNDS THEN round_keys
    ELSE LET next == UpdateKey80(key, i)
             rks  == Append(round_keys, AsU64(Shr(key, 16)))
         IN  IF Len(next) = 128 /\ Len(rks) = i + 1
             THEN RoundKeys80(next, i + 1, rks) ELSE rks

generate_round_keys_80(key) == RoundKeys80(PadKey80(key), 0, <<>>)

\* key.rotate_left(n) on a u128
RotateLeft(key, n) == Bits([k \in 1..128 |-> key[((k - 1 - n + 128) % 128) + 1]])

\* (a faulty variant: the S-box is applied to the top nibble only)
UpdateKey128OneNibble(key, i) ==
    LET rot  == RotateLeft(key, 61)
        sbox == Or(SmallShl128(S_BOX[Nib(rot, 124) + 1], 124), LowMask(rot, 124))
    IN  Xor(sbox, SmallShl128(i + 1, 62))

\* one iteration of the 128-bit schedule on the key register, i counted from 0
UpdateKey128(key, i) ==
    LET rot  == RotateLeft(key, 61)
        sbox == Or(Or(SmallShl128(S_BOX[Nib(rot, 124) + 1], 124),
                      SmallShl128(S_BOX[Nib(rot, 120) + 1], 120)),
                   LowMask(rot, 120))
    IN  Xor(sbox, SmallShl128(i + 1, 62))

RECURSIVE RoundKeys128(_, _, _)
RoundKeys128(key, i, round_keys) ==
    IF i = ROUNDS THEN round_keys
    ELSE LET next == UpdateKey128(key, i)
             rks  == Append(round_keys, AsU64(Shr(key, 64)))
         IN  IF Len(next) = 128 /\ Len(rks) = i + 1
             THEN RoundKeys128(next, i + 1, rks) ELSE rks

generate_round_keys_128(key) == RoundKeys128(from_le_bytes(key), 0, <<>>)

\* Present::new_128
new_128(key) == generate_round_keys_128(key)

\* Present::new_80
new_80(key) == generate_round_keys_80(key)

\* (a faulty variant: the permutation applied before the substitution)
EncryptRoundPermuteFirst(state, round_key) ==
    Xor(s_box_layer(p_box_layer(state)), round_key)

(***************************************************************************)
(* Block transform.  rks is the 32-entry schedule; rks[1] is round key 0.  *)
(* The loops are recursions; the width test on each intermediate value     *)
(* makes the evaluator finish one iteration before it starts the next.     *)
(***************************************************************************)
\* the body of encrypt_block's loop for one round key
EncryptRound(state, round_key) == Xor(p_box_layer(s_box_layer(state)), round_key)

\* (a faulty variant: the inverse layers applied in the encryption order)
DecryptRoundLayersSwapped(state, round_key) ==
    p_box_layer_dec(s_box_layer_dec(Xor(state, round_key)))

\* the body of decrypt_block's loop for one round key
DecryptRound(state, round_key) == s_box_layer_dec(p_box_layer_dec(Xor(state, round_key)))

RECURSIVE EncryptRounds(_, _, _)
EncryptRounds(state, rks, i) ==
    IF i > Len(rks) THEN state
    ELSE LET next == EncryptRound(state, rks[i])
         IN  IF Len(next) = 64 THEN EncryptRounds(next, rks, i + 1) ELSE next

RECURSIVE DecryptRounds(_, _, _)
DecryptRounds(state, rks, i) ==
    IF i < 2 THEN state
    ELSE LET next == DecryptRound(state, rks[i])
         IN  IF Len(next) = 64 THEN DecryptRounds(next, rks, i - 1) ELSE next

encrypt_block(rks, block) == EncryptRounds(Xor(block, rks[1]), rks, 2)

decrypt_block(rks, block) == Xor(DecryptRounds(block, rks, Len(rks)), rks[1])

(***************************************************************************)
(* OTP digest (Merkle-Damgard with Davies-Meyer compression).              *)
(***************************************************************************)
Zero64 == Bits([k \in 1..64 |-> 0])

\* (x as u128) for a u64 x
AsU128(x) == x \o Zero64

\* present_64bit_encrypt(plain, key) for a u128 key
present_64bit_encrypt(plain, k128) == encrypt_block(new_128(to_le_bytes(k128)), plain)

\* (a faulty variant: the key bytes taken most significant first)
otp_scramble_big_endian(d, k128) ==
    LET bytes == to_le_bytes(k128)
    IN  encrypt_block(new_128(Bits([i \in 1..16 |-> bytes[17 - i]])), d)

\* otp_scramble(data, key)
otp_scramble(d, k128) == encrypt_block(new_128(to_le_bytes(k128)), d)

\* otp_unscramble(data, key)
otp_unscramble(d, k128) == decrypt_block(new_128(to_le_bytes(k128)), d)

\* state ^= present_64bit_encrypt(state, b128)
Compress(state, b128) == Xor(state, present_64bit_encrypt(state, b128))

\* (a faulty variant: the first block of the pair in the high half)
PairKeySwapped(b0, b1) == Or(AsU128(b1), Shl(AsU128(b0), 64))

\* b0 as u128 | ((block as u128) << 64)
PairKey(b0, b1) == Or(AsU128(b0), Shl(AsU128(b1), 64))

\* (a faulty variant: the unpaired block is paired with zero)
LastKeyZeroPadded(last) == PairKey(last, Zero64)

\* last as u128 | ((last as u128) << 64)
LastKey(last) == PairKey(last, last)

\* the `for block in blocks` loop; prev is an Option: <<>> or <<b0>>.
\* Yields <<state, prev>> after the last block.
RECURSIVE DigestBlocks(_, _, _, _)
DigestBlocks(blocks, i, state, prev) ==
    IF i > Len(blocks) THEN <<state, prev>>
    ELSE IF prev = <<>> THEN DigestBlocks(blocks, i + 1, state, <<blocks[i]>>)
    ELSE LET next == Compress(state, PairKey(prev[1], blocks[i]))
         IN  IF Len(next) = 64 THEN DigestBlocks(blocks, i + 1, next, <<>>) ELSE <<next, prev>>

otp_digest_iter(blocks, iv, cnst) ==
    LET after   == DigestBlocks(blocks, 1, iv, <<>>)
        state   == after[1]
        prev    == after[2]
        aligned == IF prev # <<>> THEN Compress(state, LastKey(prev[1]))
                   ELSE state
    IN  Compress(aligned, cnst)

\* (a faulty variant: chunks decoded with u64::from_be_bytes)
ChunksToBlocksBigEndian(data) ==
    Bits([c \in 1..(Len(data) \div 8) |->
            from_le_bytes(Bits([j \in 1..8 |-> data[8 * c + 1 - j]]))])

\* data.chunks_exact(8).map(|chunk| u64::from_le_bytes(chunk))
ChunksToBlocks(data) ==
    Bits([c \in 1..(Len(data) \div 8) |-> from_le_bytes(SubSeq(data, 8 * c - 7, 8 * c))])

\* The outcome of a call: a value, or the panic of a failed assertion.
Returned(v) == [state |-> "ok", value |-> v]
Panicked == [state |-> "panic", value |-> Zero64]
NotCalled == [state |-> "none", value |-> Zero64]

\* (a faulty variant: no assertion, chunks_exact drops the trailing bytes)
otp_digest_truncating(data, iv, cnst) ==
    Returned(otp_digest_iter(ChunksToBlocks(data), iv, cnst))

\* assert_eq!(data.len() % 8, 0) before the chunks are decoded
otp_digest(data, iv, cnst) ==
    IF Len(data) % 8 # 0 THEN Panicked
    ELSE Returned(otp_digest_iter(ChunksToBlocks(data), iv, cnst))

(***************************************************************************)
(* Platform descriptor store (pds/src/lib.rs).                             *)
(*                                                                         *)
(* A u32 is the pair <<hi, lo>> of its 16-bit halves (value hi*2^16 + lo). *)
(* A usize has the same shape; its hi part is below 2^16 on a 32-bit       *)
(* target and may exceed it on a 64-bit target.  Buffer lengths and        *)
(* in-bounds offsets are plain integers.                                   *)
(***************************************************************************)
PDS_MAGIC == <<20548, 21297>>          \* 0x5044_5331

PDS_HEADER_VERSION == <<0, 1>>

CRC_POLY == <<1217, 7607>>             \* 0x04C1_1DB7

CRC_START_OFFSET == 12

DEFAULT_MAX_DESCRIPTORS == 32

\* core::mem::size_of::<PdsHeaderV1>()
HEADER_SIZE == 148

\* core::mem::size_of::<PdsDescriptorHeaderV1>()
DESC_HEADER_SIZE == 32

U32Of(n) == <<n \div 65536, n % 65536>>

U32Zero == <<0, 0>>

U32Max == <<65535, 65535>>

U32Lt(a, b) == a[1] < b[1] \/ (a[1] = b[1] /\ a[2] < b[2])

U32Le(a, b) == ~U32Lt(b, a)

\* u32::from_le_bytes of the 4 bytes at byte offset off (counted from 0)
ReadU32(data, off) ==
    <<data[off + 4] * 256 + data[off + 3], data[off + 2] * 256 + data[off + 1]>>

\* u32::to_le_bytes
U32Bytes(v) == <<v[2] % 256, v[2] \div 256, v[1] % 256, v[1] \div 256>>

\* the integer value of a usize known to be small
ToInt(u) == u[1] * 65536 + u[2]

\* Option
None == <<>>
Some(x) == <<x>>

\* usize::checked_add on a target whose usize has `bits` bits
checked_add(a, b, bits) ==
    LET lo == a[2] + b[2]
        hi == a[1] + b[1] + (lo \div 65536)
    IN  IF bits = 32 /\ hi >= 65536 THEN None ELSE Some(<<hi, lo % 65536>>)

\* Result and the PdsError variants
Ok(v) == [tag |-> "Ok", value |-> v]
Err(e) == [tag |-> "Err", error |-> e]
Panic == [tag |-> "Panic"]
Pending == [tag |-> "Pending"]          \* the call has not returned yet

BufferTooSmall == [kind |-> "BufferTooSmall"]
InvalidMagic(f, e) == [kind |-> "InvalidMagic", found |-> f, expected |-> e]
InvalidVersion(f, e) == [kind |-> "InvalidVersion", found |-> f, expected |-> e]
InvalidHeaderSize(f, e) == [kind |-> "InvalidHeaderSize", found |-> f, expected |-> e]
InvalidCrc(f, c) == [kind |-> "InvalidCrc", found |-> f, computed |-> c]
DescriptorOutOfBounds(o) == [kind |-> "DescriptorOutOfBounds", offset |-> o]
\* (a faulty variant: the two fields are exchanged)
PayloadOutOfBoundsSwapped(o, s) == [kind |-> "PayloadOutOfBounds", offset |-> s, size |-> o]
PayloadOutOfBounds(o, s) == [kind |-> "PayloadOutOfBounds", offset |-> o, size |-> s]
DescriptorLoop(o) == [kind |-> "DescriptorLoop", offset |-> o]
InvalidDescriptorHeaderSize(f, e) ==
    [kind |-> "InvalidDescriptorHeaderSize", found |-> f, expected |-> e]
MaxDescriptorsExceeded == [kind |-> "MaxDescriptorsExceeded"]

\* a ^ b on 16-bit integers
RECURSIVE Xor16From(_, _, _)
Xor16From(a, b, k) ==
    IF k = 16 THEN 0
    ELSE (((a \div (2 ^ k)) + (b \div (2 ^ k))) % 2) * (2 ^ k) + Xor16From(a, b, k + 1)

Xor16(a, b) == Xor16From(a, b, 0)

\* a ^ b on u32
U32Xor(a, b) == <<Xor16(a[1], b[1]), Xor16(a[2], b[2])>>

\* a << 1 on u32
U32Shl1(a) == <<(2 * a[1] + (a[2] \div 32768)) % 65536, (2 * a[2]) % 65536>>

\* (a faulty variant: the polynomial is folded in before the shift)
CrcShiftXorFirst(crc) ==
    IF crc[1] >= 32768 THEN U32Shl1(U32Xor(crc, CRC_POLY)) ELSE U32Shl1(crc)

\* one pass of the inner `for _ in 0..8` loop of crc32_cksum
CrcShift(crc) ==
    IF crc[1] >= 32768 THEN U32Xor(U32Shl1(crc), CRC_POLY) ELSE U32Shl1(crc)

\* the body of the `for &byte in data` loop: crc ^= (byte as u32) << 24, 8 shifts
CrcByte(crc, byte) ==
    LET c0 == <<Xor16(crc[1], byte * 256), crc[2]>>
    IN  CrcShift(CrcShift(CrcShift(CrcShift(CrcShift(CrcShift(CrcShift(CrcShift(c0))))))))

\* the `for &byte in data` loop over data[lo..hi] (indices from 1), evaluated
\* as the loop over the first half followed by the loop over the second half
RECURSIVE CrcFold(_, _, _, _)
CrcFold(data, lo, hi, crc) ==
    IF lo > hi THEN crc
    ELSE IF lo = hi THEN CrcByte(crc, data[lo])
    ELSE LET mid == (lo + hi) \div 2
             left == CrcFold(data, lo, mid, crc)
         IN  IF left[1] >= 0 THEN CrcFold(data, mid + 1, hi, left) ELSE left

crc32_cksum(data) == CrcFold(data, 1, Len(data), U32Zero)

\* PdsHeaderV1::read_from_prefix(data): None when data is shorter than the struct
ReadHeader(data) ==
    IF Len(data) < HEADER_SIZE THEN None
    ELSE Some([magic                   |-> ReadU32(data, 0),
               header_size             |-> ReadU32(data, 4),
               header_crc              |-> ReadU32(data, 8),
               version                 |-> ReadU32(data, 12),
               first_descriptor_offset |-> ReadU32(data, 16),
               pds_version_string      |-> SubSeq(data, 21, 148)])

\* PdsDescriptorHeaderV1::read_from_prefix(tail): None when tail is too short
ReadDescriptorHeader(tail) ==
    IF Len(tail) < DESC_HEADER_SIZE THEN None
    ELSE Some([header_size            |-> ReadU32(tail, 0),
               payload_offset         |-> ReadU32(tail, 4),
               payload_size           |-> ReadU32(tail, 8),
               next_descriptor_offset |-> ReadU32(tail, 12),
               descriptor_type        |-> SubSeq(tail, 17, 32)])

\* (a faulty variant: the slice loses its last byte)
SliceOneShort(data, start, end) ==
    IF U32Lt(end, start) \/ U32Lt(U32Of(Len(data)), end) THEN None
    ELSE Some(SubSeq(data, ToInt(start) + 1, ToInt(end) - 1))

\* &data[start..end] for usize start, end: None stands for the slice-index panic
Slice(data, start, end) ==
    IF U32Lt(end, start) \/ U32Lt(U32Of(Len(data)), end) THEN None
    ELSE Some(SubSeq(data, ToInt(start) + 1, ToInt(end)))

\* the header checks of validate_header, in the order of the code
HeaderSizeExceedsBuffer(header, data) == U32Lt(U32Of(Len(data)), header.header_size)

\* (a faulty variant: the version is checked before the magic)
validate_header_version_first(data) ==
    LET read   == ReadHeader(data)
        header == read[1]
        crc_end == header.header_size
        crc_data == Slice(data, U32Of(CRC_START_OFFSET), crc_end)
        computed_crc == crc32_cksum(crc_data[1])
    IN  IF read = None THEN Err(BufferTooSmall)
        ELSE IF U32Lt(header.version, PDS_HEADER_VERSION)
            THEN Err(InvalidVersion(header.version, PDS_HEADER_VERSION))
        ELSE IF header.magic # PDS_MAGIC
            THEN Err(InvalidMagic(header.magic, PDS_MAGIC))
        ELSE IF U32Lt(header.header_size, U32Of(HEADER_SIZE))
            THEN Err(InvalidHeaderSize(header.header_size, U32Of(HEADER_SIZE)))
        ELSE IF HeaderSizeExceedsBuffer(header, data) THEN Err(BufferTooSmall)
        ELSE IF crc_data = None THEN Panic
        ELSE IF computed_crc # header.header_crc
            THEN Err(InvalidCrc(header.header_crc, computed_crc))
        ELSE Ok(header)
\* (a faulty variant: the CRC is not compared)
validate_header_crc_unchecked(data) ==
    LET read   == ReadHeader(data)
        header == read[1]
        crc_end == header.header_size
        crc_data == Slice(data, U32Of(CRC_START_OFFSET), crc_end)
    IN  IF read = None THEN Err(BufferTooSmall)
        ELSE IF header.magic # PDS_MAGIC
            THEN Err(InvalidMagic(header.magic, PDS_MAGIC))
        ELSE IF U32Lt(header.version, PDS_HEADER_VERSION)
            THEN Err(InvalidVersion(header.version, PDS_HEADER_VERSION))
        ELSE IF U32Lt(header.header_size, U32Of(HEADER_SIZE))
            THEN Err(InvalidHeaderSize(header.header_size, U32Of(HEADER_SIZE)))
        ELSE IF HeaderSizeExceedsBuffer(header, data) THEN Err(BufferTooSmall)
        ELSE IF crc_data = None THEN Panic
        ELSE Ok(header)

\* (a faulty variant: the CRC runs to the end of the buffer)
validate_header_crc_to_end(data) ==
    LET h == ReadHeader(data)
        header == h[1]
        crc_data == Slice(data, U32Of(CRC_START_OFFSET), U32Of(Len(data)))
        computed_crc == crc32_cksum(crc_data[1])
    IN  IF h = None THEN Err(BufferTooSmall)
        ELSE IF header.magic # PDS_MAGIC THEN Err(InvalidMagic(header.magic, PDS_MAGIC))
        ELSE IF U32Lt(header.version, PDS_HEADER_VERSION)
            THEN Err(InvalidVersion(header.version, PDS_HEADER_VERSION))
        ELSE IF U32Lt(header.header_size, U32Of(HEADER_SIZE))
            THEN Err(InvalidHeaderSize(header.header_size, U32Of(HEADER_SIZE)))
        ELSE IF HeaderSizeExceedsBuffer(header, data) THEN Err(BufferTooSmall)
        ELSE IF crc_data = None THEN Panic
        ELSE IF computed_crc # header.header_crc
            THEN Err(InvalidCrc(header.header_crc, computed_crc))
        ELSE Ok(header)

\* validate_header(data)
validate_header(data) ==
    LET read   == ReadHeader(data)
        header == read[1]
        crc_end == header.header_size
        crc_data == Slice(data, U32Of(CRC_START_OFFSET), crc_end)
        computed_crc == crc32_cksum(crc_data[1])
    IN  IF read = None THEN Err(BufferTooSmall)
        ELSE IF header.magic # PDS_MAGIC
            THEN Err(InvalidMagic(header.magic, PDS_MAGIC))
        ELSE IF U32Lt(header.version, PDS_HEADER_VERSION)
            THEN Err(InvalidVersion(header.version, PDS_HEADER_VERSION))
        ELSE IF U32Lt(header.header_size, U32Of(HEADER_SIZE))
            THEN Err(InvalidHeaderSize(header.header_size, U32Of(HEADER_SIZE)))
        ELSE IF HeaderSizeExceedsBuffer(header, data) THEN Err(BufferTooSmall)
        ELSE IF crc_data = None THEN Panic
        ELSE IF computed_crc # header.header_crc
            THEN Err(InvalidCrc(header.header_crc, computed_crc))
        ELSE Ok(header)

(***************************************************************************)
(* The descriptor walkers.  One evaluation of the `while next_offset != 0` *)
(* test together with the loop body is an iteration; it yields the new     *)
(* values of the locals, or the value the function returns.                *)
(***************************************************************************)
\* (faulty variants: no cap, a cap one too low, a cap one too high)
CapIgnored(count, max_descriptors) == FALSE
CapReachedEarly(count, max_descriptors) == count + 1 >= max_descriptors
CapReachedLate(count, max_descriptors) == count > max_descriptors

\* count >= max_descriptors
CapReached(count, max_descriptors) == count >= max_descriptors

\* (a faulty variant: a descriptor pointing to itself is let through)
BackwardOnlyViolated(count, next_offset, prev_offset) ==
    count > 0 /\ U32Lt(next_offset, prev_offset)

\* count > 0 && next_offset <= prev_offset
ForwardOnlyViolated(count, next_offset, prev_offset) ==
    count > 0 /\ U32Le(next_offset, prev_offset)

\* (a faulty variant: offset + desc_header_size with a wrapping addition)
DescriptorHeaderOutOfBoundsWrapping(data, next_offset, bits) ==
    LET lo == next_offset[2] + DESC_HEADER_SIZE
        hi == next_offset[1] + (lo \div 65536)
        end == <<IF bits = 32 THEN hi % 65536 ELSE hi, lo % 65536>>
    IN  U32Lt(U32Of(Len(data)), end)

\* offset.checked_add(desc_header_size as usize).map_or(true, |end| end > data.len())
DescriptorHeaderOutOfBounds(data, next_offset, bits) ==
    LET end == checked_add(next_offset, U32Of(DESC_HEADER_SIZE), bits)
    IN  end = None \/ U32Lt(U32Of(Len(data)), end[1])

\* desc.header_size < desc_header_size
DescriptorHeaderTooSmall(desc) == U32Lt(desc.header_size, U32Of(DESC_HEADER_SIZE))

\* payload_end > data.len()
PayloadEndExceedsBuffer(data, payload_end) == U32Lt(U32Of(Len(data)), payload_end)

\* &data[offset..]; None stands for the slice-index panic
SliceFrom(data, offset) == Slice(data, offset, U32Of(Len(data)))

\* the byte range [offset, offset + 32) read as a descriptor header
HeaderRange(next_offset) ==
    <<ToInt(next_offset), ToInt(next_offset) + DESC_HEADER_SIZE, "header">>

\* the byte range &data[payload_start..payload_end] handed out as a payload
PayloadRange(payload_start, payload_end) ==
    <<ToInt(payload_start), ToInt(payload_end), "payload">>

\* (a faulty variant: the callback's answer is ignored)
CallbackStopIgnored(continues) == FALSE

\* if !callback(descriptor) { return Ok(()) }
CallbackStops(continues) == ~continues

\* an iteration that returns r from the function
Returns(r, reads) ==
    [returned |-> TRUE, result |-> r, yielded |-> None, reads |-> reads,
     next_offset |-> U32Zero, prev_offset |-> U32Zero, count |-> 0]

\* (a faulty variant: the payload bounds are checked before header_size)
for_each_iteration_payload_first(data, max_descriptors, continues, bits, next_offset, count, prev_offset) ==
    LET tail == SliceFrom(data, next_offset)
        read == ReadDescriptorHeader(tail[1])
        desc == read[1]
        hdr  == <<HeaderRange(next_offset)>>
        payload_start == desc.payload_offset
        payload_end == checked_add(payload_start, desc.payload_size, bits)
        payload == Slice(data, payload_start, payload_end[1])
        descriptor == [descriptor_type |-> desc.descriptor_type, payload |-> payload[1]]
        all == hdr \o <<PayloadRange(payload_start, payload_end[1])>>
    IN  IF next_offset = U32Zero THEN Returns(Ok(<<>>), <<>>)
        ELSE IF CapReached(count, max_descriptors)
            THEN Returns(Err(MaxDescriptorsExceeded), <<>>)
        ELSE IF ForwardOnlyViolated(count, next_offset, prev_offset)
            THEN Returns(Err(DescriptorLoop(next_offset)), <<>>)
        ELSE IF DescriptorHeaderOutOfBounds(data, next_offset, bits)
            THEN Returns(Err(DescriptorOutOfBounds(next_offset)), <<>>)
        ELSE IF tail = None THEN Returns(Panic, <<>>)
        ELSE IF read = None THEN Returns(Err(DescriptorOutOfBounds(next_offset)), <<>>)
        ELSE IF payload_end = None
            THEN Returns(Err(PayloadOutOfBounds(desc.payload_offset, desc.payload_size)), hdr)
        ELSE IF PayloadEndExceedsBuffer(data, payload_end[1])
            THEN Returns(Err(PayloadOutOfBounds(desc.payload_offset, desc.payload_size)), hdr)
        ELSE IF DescriptorHeaderTooSmall(desc)
            THEN Returns(Err(InvalidDescriptorHeaderSize(desc.header_size,
                                                         U32Of(DESC_HEADER_SIZE))), hdr)
        ELSE IF payload = None THEN Returns(Panic, hdr)
        ELSE IF CallbackStops(continues)
            THEN [Returns(Ok(<<>>), all) EXCEPT !.yielded = Some(descriptor)]
        ELSE [returned |-> FALSE, result |-> Ok(<<>>), yielded |-> Some(descriptor),
              reads |-> all, next_offset |-> desc.next_descriptor_offset,
              prev_offset |-> next_offset, count |-> count + 1]

\* (a faulty variant: the callback sees the descriptor before header_size is checked)
for_each_iteration_callback_first(data, max_descriptors, continues, bits, next_offset, count, prev_offset) ==
    LET tail == SliceFrom(data, next_offset)
        read == ReadDescriptorHeader(tail[1])
        desc == read[1]
        hdr  == <<HeaderRange(next_offset)>>
        payload_start == desc.payload_offset
        payload_end == checked_add(payload_start, desc.payload_size, bits)
        payload == Slice(data, payload_start, payload_end[1])
        descriptor == [descriptor_type |-> desc.descriptor_type, payload |-> payload[1]]
        all == hdr \o <<PayloadRange(payload_start, payload_end[1])>>
    IN  IF next_offset = U32Zero THEN Returns(Ok(<<>>), <<>>)
        ELSE IF CapReached(count, max_descriptors)
            THEN Returns(Err(MaxDescriptorsExceeded), <<>>)
        ELSE IF ForwardOnlyViolated(count, next_offset, prev_offset)
            THEN Returns(Err(DescriptorLoop(next_offset)), <<>>)
        ELSE IF DescriptorHeaderOutOfBounds(data, next_offset, bits)
            THEN Returns(Err(DescriptorOutOfBounds(next_offset)), <<>>)
        ELSE IF tail = None THEN Returns(Panic, <<>>)
        ELSE IF read = None THEN Returns(Err(DescriptorOutOfBounds(next_offset)), <<>>)
        ELSE IF DescriptorHeaderTooSmall(desc)
            THEN [Returns(Err(InvalidDescriptorHeaderSize(desc.header_size,
                                                          U32Of(DESC_HEADER_SIZE))), hdr)
                  EXCEPT !.yielded =
                      IF payload_end = None THEN None
                      ELSE IF PayloadEndExceedsBuffer(data, payload_end[1]) THEN None
                      ELSE Some(descriptor)]
        ELSE IF payload_end = None
            THEN Returns(Err(PayloadOutOfBounds(desc.payload_offset, desc.payload_size)), hdr)
        ELSE IF PayloadEndExceedsBuffer(data, payload_end[1])
            THEN Returns(Err(PayloadOutOfBounds(desc.payload_offset, desc.payload_size)), hdr)
        ELSE IF payload = None THEN Returns(Panic, hdr)
        ELSE IF CallbackStops(continues)
            THEN [Returns(Ok(<<>>), all) EXCEPT !.yielded = Some(descriptor)]
        ELSE [returned |-> FALSE, result |-> Ok(<<>>), yielded |-> Some(descriptor),
              reads |-> all, next_offset |-> desc.next_descriptor_offset,
              prev_offset |-> next_offset, count |-> count + 1]

\* one iteration of for_each_descriptor; `continues` is what the callback
\* returns if it is invoked in this iteration
for_each_iteration(data, max_descriptors, continues, bits, next_offset, count, prev_offset) ==
    LET tail == SliceFrom(data, next_offset)
        read == ReadDescriptorHeader(tail[1])
        desc == read[1]
        hdr  == <<HeaderRange(next_offset)>>
        payload_start == desc.payload_offset
        payload_end == checked_add(payload_start, desc.payload_size, bits)
        payload == Slice(data, payload_start, payload_end[1])
        descriptor == [descriptor_type |-> desc.descriptor_type, payload |-> payload[1]]
        all == hdr \o <<PayloadRange(payload_start, payload_end[1])>>
    IN  IF next_offset = U32Zero THEN Returns(Ok(<<>>), <<>>)
        ELSE IF CapReached(count, max_descriptors)
            THEN Returns(Err(MaxDescriptorsExceeded), <<>>)
        ELSE IF ForwardOnlyViolated(count, next_offset, prev_offset)
            THEN Returns(Err(DescriptorLoop(next_offset)), <<>>)
        ELSE IF DescriptorHeaderOutOfBounds(data, next_offset, bits)
            THEN Returns(Err(DescriptorOutOfBounds(next_offset)), <<>>)
        ELSE IF tail = None THEN Returns(Panic, <<>>)
        ELSE IF read = None THEN Returns(Err(DescriptorOutOfBounds(next_offset)), <<>>)
        ELSE IF DescriptorHeaderTooSmall(desc)
            THEN Returns(Err(InvalidDescriptorHeaderSize(desc.header_size,
                                                         U32Of(DESC_HEADER_SIZE))), hdr)
        ELSE IF payload_end = None
            THEN Returns(Err(PayloadOutOfBounds(desc.payload_offset, desc.payload_size)), hdr)
        ELSE IF PayloadEndExceedsBuffer(data, payload_end[1])
            THEN Returns(Err(PayloadOutOfBounds(desc.payload_offset, desc.payload_size)), hdr)
        ELSE IF payload = None THEN Returns(Panic, hdr)
        ELSE IF CallbackStops(continues)
            THEN [Returns(Ok(<<>>), all) EXCEPT !.yielded = Some(descriptor)]
        ELSE [returned |-> FALSE, result |-> Ok(<<>>), yielded |-> Some(descriptor),
              reads |-> all, next_offset |-> desc.next_descriptor_offset,
              prev_offset |-> next_offset, count |-> count + 1]

\* one iteration of find_descriptor
find_iteration(data, uuid, bits, next_offset, count, prev_offset) ==
    LET tail == SliceFrom(data, next_offset)
        read == ReadDescriptorHeader(tail[1])
        desc == read[1]
        hdr  == <<HeaderRange(next_offset)>>
        payload_start == desc.payload_offset
        payload_end == checked_add(payload_start, desc.payload_size, bits)
        payload == Slice(data, payload_start, payload_end[1])
        all == hdr \o <<PayloadRange(payload_start, payload_end[1])>>
    IN  IF next_offset = U32Zero THEN Returns(Ok(None), <<>>)
        ELSE IF CapReached(count, DEFAULT_MAX_DESCRIPTORS)
            THEN Returns(Err(MaxDescriptorsExceeded), <<>>)
        ELSE IF ForwardOnlyViolated(count, next_offset, prev_offset)
            THEN Returns(Err(DescriptorLoop(next_offset)), <<>>)
        ELSE IF DescriptorHeaderOutOfBounds(data, next_offset, bits)
            THEN Returns(Err(DescriptorOutOfBounds(next_offset)), <<>>)
        ELSE IF tail = None THEN Returns(Panic, <<>>)
        ELSE IF read = None THEN Returns(Err(DescriptorOutOfBounds(next_offset)), <<>>)
        ELSE IF desc.descriptor_type = uuid
            THEN IF payload_end = None
                    THEN Returns(Err(PayloadOutOfBounds(desc.payload_offset,
                                                        desc.payload_size)), hdr)
                 ELSE IF PayloadEndExceedsBuffer(data, payload_end[1])
                    THEN Returns(Err(PayloadOutOfBounds(desc.payload_offset,
                                                        desc.payload_size)), hdr)
                 ELSE IF payload = None THEN Returns(Panic, hdr)
                 ELSE Returns(Ok(Some(payload[1])), all)
        ELSE [returned |-> FALSE, result |-> Ok(None), yielded |-> None,
              reads |-> hdr, next_offset |-> desc.next_descriptor_offset,
              prev_offset |-> next_offset, count |-> count + 1]

(***************************************************************************)
(* Store images.  build_pds is the builder of the crate's tests; the       *)
(* other operators overwrite fields of an image or cut it short, so that   *)
(* the parser also sees corrupted and adversarial stores.                  *)
(***************************************************************************)
Zeros(n) == Bits([k \in 1..n |-> 0])

\* PdsHeaderV1::as_bytes
HeaderBytes(h) ==
    U32Bytes(h.magic) \o U32Bytes(h.header_size) \o U32Bytes(h.header_crc)
    \o U32Bytes(h.version) \o U32Bytes(h.first_descriptor_offset) \o h.pds_version_string

\* PdsDescriptorHeaderV1::as_bytes
DescriptorBytes(d) ==
    U32Bytes(d.header_size) \o U32Bytes(d.payload_offset) \o U32Bytes(d.payload_size)
    \o U32Bytes(d.next_descriptor_offset) \o d.descriptor_type

\* the `for (i, (uuid, payload)) in descriptors.iter().enumerate()` loop
RECURSIVE WriteDescriptors(_, _, _)
WriteDescriptors(buf, descriptors, i) ==
    IF i > Len(descriptors) THEN buf
    ELSE LET current_offset == Len(buf)
             payload == descriptors[i].payload
             desc == [header_size            |-> U32Of(DESC_HEADER_SIZE),
                      payload_offset         |-> U32Of(current_offset + DESC_HEADER_SIZE),
                      payload_size           |-> U32Of(Len(payload)),
                      next_descriptor_offset |->
                          IF i < Len(descriptors)
                          THEN U32Of(current_offset + DESC_HEADER_SIZE + Len(payload))
                          ELSE U32Zero,
                      descriptor_type        |-> descriptors[i].uuid]
             next == buf \o DescriptorBytes(desc) \o payload
         IN  IF Len(next) > 0 THEN WriteDescriptors(next, descriptors, i + 1) ELSE next

build_pds(descriptors) ==
    LET buf == WriteDescriptors(Zeros(HEADER_SIZE), descriptors, 1)
        header == [magic                   |-> PDS_MAGIC,
                   header_size             |-> U32Of(HEADER_SIZE),
                   header_crc              |-> U32Zero,
                   version                 |-> PDS_HEADER_VERSION,
                   first_descriptor_offset |->
                       IF descriptors = <<>> THEN U32Zero ELSE U32Of(HEADER_SIZE),
                   pds_version_string      |-> Zeros(128)]
        crc == crc32_cksum(SubSeq(HeaderBytes(header), CRC_START_OFFSET + 1, HEADER_SIZE))
    IN  HeaderBytes([header EXCEPT !.header_crc = crc])
        \o SubSeq(buf, HEADER_SIZE + 1, Len(buf))

\* buf[off .. off+4] = v.to_le_bytes()
WriteU32(buf, off, v) ==
    SubSeq(buf, 1, off) \o U32Bytes(v) \o SubSeq(buf, off + 5, Len(buf))

\* store the CRC of bytes [12, header_size) in header_crc, when that range exists
Reseal(buf) ==
    LET size == ReadU32(buf, 4)
    IN  IF Len(buf) < HEADER_SIZE \/ U32Lt(size, U32Of(CRC_START_OFFSET))
           \/ U32Lt(U32Of(Len(buf)), size)
        THEN buf
        ELSE WriteU32(buf, 8, crc32_cksum(SubSeq(buf, CRC_START_OFFSET + 1, ToInt(size))))

\* the uuid [t; 16]
Uuid(t) == Bits([k \in 1..16 |-> t])

\* Descriptor i of an image: payload of 1 + (i-1) % 3 bytes; types alternate
\* 1, 2, 1, 2, .. up to descriptor 31; descriptor 32 has type 4, later ones type 3.
PayloadOf(i) == Bits([k \in 1..(1 + ((i - 1) % 3)) |-> (16 * i + k) % 256])

TypeOf(i) ==
    IF i > DEFAULT_MAX_DESCRIPTORS THEN 3
    ELSE IF i = DEFAULT_MAX_DESCRIPTORS THEN 4
    ELSE 1 + ((i - 1) % 2)

Descriptors(n) == Bits([i \in 1..n |-> [uuid |-> Uuid(TypeOf(i)), payload |-> PayloadOf(i)]])

\* byte offset of descriptor i (counted from 1) in build_pds(Descriptors(n))
RECURSIVE OffsetOf(_)
OffsetOf(i) ==
    IF i = 1 THEN HEADER_SIZE
    ELSE OffsetOf(i - 1) + DESC_HEADER_SIZE + Len(PayloadOf(i - 1))

(***************************************************************************)
(* Emulated flash controller behind the MCU mailbox                        *)
(* (hw/model/src/mm_flash_ctrl.rs).  Registers are u32 pairs; the target   *)
(* status register is kept as its Status field and its Done bit; file I/O  *)
(* on the flash file, which new() sizes to the full capacity, succeeds.    *)
(***************************************************************************)
PAGE_SIZE == 256
NUM_PAGES == 262144

\* impl From<u32> for FlashOp
FlashOp(c) ==
    IF c = U32Of(1) THEN "Read"
    ELSE IF c = U32Of(2) THEN "Write"
    ELSE IF c = U32Of(3) THEN "Erase"
    ELSE "Unknown"

\* the target status register before any request was answered
StatusCleared == [status |-> "None", done |-> FALSE]

\* (a faulty variant: the Done bit is left out)
StatusRegisterWithoutDone(status_field) == [status |-> status_field, done |-> FALSE]

\* (status_field & 0xf) | done_bit
StatusRegister(status_field) == [status |-> status_field, done |-> TRUE]

\* page_num < NUM_PAGES as u32 && page_size_reg as usize == PAGE_SIZE
PageRequestValid(page_num, page_size_reg) ==
    U32Lt(page_num, U32Of(NUM_PAGES)) /\ page_size_reg = U32Of(PAGE_SIZE)

\* vec![0xFFu8; PAGE_SIZE]
ErasedPage == Bits([k \in 1..PAGE_SIZE |-> 255])

\* the PAGE_SIZE bytes of the flash file at page_num * PAGE_SIZE
ReadPage(file, page_num) ==
    IF ToInt(page_num) \in DOMAIN file THEN file[ToInt(page_num)] ELSE ErasedPage

\* the flash file after write_all(page_buf) at page_num * PAGE_SIZE
WritePage(file, page_num, page_buf) ==
    [p \in (DOMAIN file) \cup {ToInt(page_num)} |->
        IF p = ToInt(page_num) THEN page_buf ELSE file[p]]

\* chunk.iter().enumerate().fold(0u32, |acc, (j, &b)| acc | ((b as u32) << (j * 8)))
WordOfChunk(chunk) == <<chunk[3] + 256 * chunk[4], chunk[1] + 256 * chunk[2]>>

\* (a faulty variant: byte j is taken from the other end of the word)
ByteOfWordBigEndian(word, j) ==
    IF j = 3 THEN word[2] % 256
    ELSE IF j = 2 THEN word[2] \div 256
    ELSE IF j = 1 THEN word[1] % 256
    ELSE word[1] \div 256

\* ((word >> (j * 8)) & 0xff) as u8
ByteOfWord(word, j) ==
    IF j = 0 THEN word[2] % 256
    ELSE IF j = 1 THEN word[2] \div 256
    ELSE IF j = 2 THEN word[1] % 256
    ELSE word[1] \div 256

\* FlashOp::Read: SRAM words 0..63 after the page was copied into them
SramAfterRead(mbox_sram, page_buf) ==
    Bits([k \in 1..Len(mbox_sram) |->
            IF k <= PAGE_SIZE \div 4 THEN WordOfChunk(SubSeq(page_buf, 4 * k - 3, 4 * k))
            ELSE mbox_sram[k]])

\* FlashOp::Write: page_buf filled from SRAM words 2..65
PageOfSram(mbox_sram) ==
    Bits([k \in 1..PAGE_SIZE |-> ByteOfWord(mbox_sram[3 + ((k - 1) \div 4)], (k - 1) % 4)])

\* the `match op` of poll_mailbox_and_process: the status field and the new
\* contents of the mailbox SRAM, the dlen register and the flash file
ProcessRequest(c, mbox_sram, mbox_dlen, file) ==
    LET page_num == mbox_sram[1]
        page_size_reg == mbox_sram[2]
        op == FlashOp(c)
        failure == [status_field |-> "CmdFailure", sram |-> mbox_sram, dlen |-> mbox_dlen,
                    flash |-> file]
    IN  IF op = "Unknown" THEN failure
        ELSE IF ~PageRequestValid(page_num, page_size_reg) THEN failure
        ELSE IF op = "Read"
            THEN [status_field |-> "CmdComplete",
                  sram |-> SramAfterRead(mbox_sram, ReadPage(file, page_num)),
                  dlen |-> U32Of(PAGE_SIZE),
                  flash |-> file]
        ELSE IF op = "Write"
            THEN [status_field |-> "CmdComplete", sram |-> mbox_sram, dlen |-> mbox_dlen,
                  flash |-> WritePage(file, page_num, PageOfSram(mbox_sram))]
        ELSE [status_field |-> "CmdComplete", sram |-> mbox_sram, dlen |-> mbox_dlen,
              flash |-> WritePage(file, page_num, ErasedPage)]

(***************************************************************************)
(* VdmService (mctp-vdm-lib/src/daemon.rs).  vdm_responder_task is an      *)
(* embassy task declared without a pool_size, so its pool holds POOL_SIZE  *)
(* task storages; spawning claims a free one, or fails with no free one    *)
(* and the unwrap in start() panics.  A storage is free again when the     *)
(* task's future has returned.  The executor is cooperative: a task gives  *)
(* way only at an await.                                                   *)
(***************************************************************************)
POOL_SIZE == 1

NoStart == [was_running |-> FALSE, live_before |-> 0, result |-> "none", spawned |-> 0]

\* the task storages with a live vdm_responder loop
LiveResponders(pool) == {i \in DOMAIN pool : pool[i] # "free"}

\* a pool that hands out any storage the model has
FreeStorageUnbounded(pool) == {i \in DOMAIN pool : pool[i] = "free"}

\* the storages spawn may claim
FreeStorage(pool) == {i \in 1..POOL_SIZE : pool[i] = "free"}

(***************************************************************************)
(* State.  The cipher, the digest and the descriptor store share no state; *)
(* each has its own variables and its own specification, in which the      *)
(* other components stay idle.                                             *)
(***************************************************************************)
VARIABLES
    \* ---- cipher (struct Present and one encrypt/decrypt round trip)
    ppc,         \* "idle", "new", "ready", "encrypted", "decrypted"
    key,         \* the key bytes given to Present::new_80 / new_128
    round_keys,  \* Present.round_keys
    block,       \* the plaintext block
    ct,          \* encrypt_block(block)
    pt,          \* decrypt_block(ct)
    \* ---- digest
    data,        \* the byte buffer given to otp_digest
    blocks,      \* the u64 stream given to otp_digest_iter
    iv,          \* initialization vector (u64)
    cnst,        \* finalization constant (u128)
    digest,      \* outcome of otp_digest(data, iv, cnst)
    digest_iter, \* outcome of otp_digest_iter(blocks, iv, cnst)
    \* ---- descriptor store
    pc,              \* "idle", "start", "validated", "for_each", "find", "returned"
    pds,             \* the store image (the `data` argument of the parser)
    usize_bits,      \* width of usize on the target: 32 or 64
    validated,       \* outcome of validate_header(pds)
    max_descriptors, \* argument of for_each_descriptor
    stop_at,         \* the callback returns false at its stop_at-th call (0: never)
    uuid,            \* argument of find_descriptor
    next_offset,     \* walker local
    count,           \* walker local
    prev_offset,     \* walker local
    calls,           \* the descriptors handed to the callback, in order
    reads,           \* the byte ranges <<start, end, kind>> the walker has read
    iterations,      \* loop iterations the walker has run
    result,          \* what the walker returned
    \* ---- scrambling wrappers
    opc,             \* "idle", "start", "scrambled", "unscrambled"
    otp_data,        \* the u64 given by the caller
    otp_key,         \* the u128 key
    scrambled,       \* otp_scramble(otp_data, otp_key)
    unscramble_arg,  \* the u64 given to otp_unscramble
    unscrambled,     \* otp_unscramble(unscramble_arg, otp_key)
    \* ---- a second buffer given to validate_header
    pc_b,            \* "idle", "start", "validated"
    pds_b,           \* the second buffer
    validated_b,     \* outcome of validate_header(pds_b)
    \* ---- emulated flash controller and its mailbox
    cpc,             \* "idle"; "poll": between two polls; "wait": in the loop after a request
    busy,            \* ImaginaryFlashController.busy
    execute,         \* mcu_mbox0_csr_mbox_execute: "SET" or "CLEAR"
    cmd,             \* mcu_mbox0_csr_mbox_cmd
    dlen,            \* mcu_mbox0_csr_mbox_dlen
    target_status,   \* mcu_mbox0_csr_mbox_target_status
    sram,            \* mcu_mbox0_csr_mbox_sram, words 0..65 (word i is element i + 1)
    flash,           \* flash_file: page number -> 256 bytes; a page not in it holds 0xFF
    requests,        \* requests the requester has issued
    processed,       \* times the controller has processed the current request
    last_poll,       \* what the last poll did: "none", "idle", "processed"
    log,             \* the requests as the controller processed them, oldest first
    \* ---- VdmService and its responder tasks
    running,         \* the RUNNING flag (AtomicBool)
    tasks,           \* storage of vdm_responder_task: "free", "head" (spawned, not yet
                     \* polled), "handling" (awaiting handle_responder_msg)
    last_start,      \* what the last start() saw and did
    panicked,        \* the application has panicked
    starts,          \* start() calls made
    handled          \* messages the responders have handled

presentVars == <<ppc, key, round_keys, block, ct, pt>>
digestVars == <<data, blocks, iv, cnst, digest, digest_iter>>
pdsVars == <<pc, pds, usize_bits, validated, max_descriptors, stop_at, uuid, next_offset,
             count, prev_offset, calls, reads, iterations, result>>
scrambleVars == <<opc, otp_data, otp_key, scrambled, unscramble_arg, unscrambled>>
otherVars == <<pc_b, pds_b, validated_b>>
flashVars == <<cpc, busy, execute, cmd, dlen, target_status, sram, flash, requests,
               processed, last_poll, log>>
vdmVars == <<running, tasks, last_start, panicked, starts, handled>>
vars == <<presentVars, digestVars, pdsVars, scrambleVars, otherVars, flashVars, vdmVars>>

PresentIdle ==
    /\ ppc = "idle" /\ key = <<>> /\ round_keys = <<>>
    /\ block = Zero64 /\ ct = Zero64 /\ pt = Zero64

DigestIdle ==
    /\ data = <<>> /\ blocks = <<>> /\ iv = Zero64 /\ cnst = AsU128(Zero64)
    /\ digest = NotCalled /\ digest_iter = NotCalled

ScrambleIdle ==
    /\ opc = "idle" /\ otp_data = Zero64 /\ otp_key = AsU128(Zero64)
    /\ scrambled = Zero64 /\ unscramble_arg = Zero64 /\ unscrambled = Zero64

OtherIdle == pc_b = "idle" /\ pds_b = <<>> /\ validated_b = Pending

FlashIdle ==
    /\ cpc = "idle" /\ busy = FALSE /\ execute = "CLEAR" /\ cmd = U32Zero /\ dlen = U32Zero
    /\ target_status = StatusCleared /\ sram = <<>> /\ flash = <<>>
    /\ requests = 0 /\ processed = 0 /\ last_poll = "none" /\ log = <<>>

VdmIdle ==
    /\ running = FALSE /\ tasks = <<>> /\ last_start = NoStart /\ panicked = FALSE
    /\ starts = 0 /\ handled = 0

PdsIdle ==
    /\ pc = "idle" /\ pds = <<>> /\ usize_bits = 64 /\ validated = Pending
    /\ max_descriptors = 0 /\ stop_at = 0 /\ uuid = <<>>
    /\ next_offset = U32Zero /\ count = 0 /\ prev_offset = U32Zero
    /\ calls = <<>> /\ reads = <<>> /\ iterations = 0 /\ result = Pending

(***************************************************************************)
(* Inputs are drawn from small families of byte patterns                   *)
(* (seed 0: all zero, seed 1: all 0xff, others: mixed bytes).              *)
(***************************************************************************)
PatternByte(seed, k) ==
    IF seed = 0 THEN 0
    ELSE IF seed = 1 THEN 255
    ELSE (seed * 37 + k * 101 + seed * k * 13) % 256

PatternBytes(seed, n) == Bits([k \in 1..n |-> PatternByte(seed, k)])

(***************************************************************************)
(* Cipher specification: construct a cipher, encrypt a block, decrypt it.  *)
(***************************************************************************)
MaxKeySeed == 3
MaxBlockSeed == 5

PresentInit ==
    /\ ppc = "new"
    /\ \E n \in {10, 16}, s \in 0..MaxKeySeed : key = PatternBytes(s, n)
    /\ \E s \in 0..MaxBlockSeed : block = from_le_bytes(PatternBytes(s, 8))
    /\ round_keys = <<>>
    /\ ct = Zero64
    /\ pt = Zero64

\* Present::new_80 / Present::new_128
New ==
    /\ ppc = "new"
    /\ round_keys' = IF Len(key) = 10 THEN new_80(key) ELSE new_128(key)
    /\ ppc' = "ready"
    /\ UNCHANGED <<key, block, ct, pt>>
    /\ UNCHANGED <<digestVars, pdsVars, scrambleVars, otherVars, flashVars, vdmVars>>

\* cipher.encrypt_block(block)
EncryptBlock ==
    /\ ppc = "ready"
    /\ ct' = encrypt_block(round_keys, block)
    /\ ppc' = "encrypted"
    /\ UNCHANGED <<key, round_keys, block, pt>>
    /\ UNCHANGED <<digestVars, pdsVars, scrambleVars, otherVars, flashVars, vdmVars>>

\* cipher.decrypt_block(ct)
DecryptBlock ==
    /\ ppc = "encrypted"
    /\ pt' = decrypt_block(round_keys, ct)
    /\ ppc' = "decrypted"
    /\ UNCHANGED <<key, round_keys, block, ct>>
    /\ UNCHANGED <<digestVars, pdsVars, scrambleVars, otherVars, flashVars, vdmVars>>

PresentNext == New \/ EncryptBlock \/ DecryptBlock

InitPresent == PresentInit /\ DigestIdle /\ PdsIdle /\ ScrambleIdle /\ OtherIdle /\ FlashIdle /\ VdmIdle

SpecPresent == InitPresent /\ [][PresentNext]_vars

(***************************************************************************)
(* Digest specification: one buffer is digested whole (otp_digest) and as  *)
(* a stream of words (otp_digest_iter), in either order.  The stream holds *)
(* the words a caller reads from the same storage: word c is               *)
(* sum(data[8c + j] * 256^j), j = 0..7; trailing bytes form no word.       *)
(***************************************************************************)
MaxBlocks == 4
MaxDataSeed == 0
MaxIvSeed == 1
MaxCnstSeed == 1

\* bit b of the little-endian word c (both counted from 0) of a byte buffer
WordBit(bytes, c, b) == (bytes[8 * c + (b \div 8) + 1] \div Pow2(b % 8)) % 2

WordsOf(bytes) ==
    Bits([c \in 1..(Len(bytes) \div 8) |-> Bits([b \in 1..64 |-> WordBit(bytes, c - 1, b - 1)])])

DigestInit ==
    /\ \E n \in 0..MaxBlocks, r \in {0, 3}, s \in 0..MaxDataSeed :
          data = PatternBytes(s + 2, 8 * n + r)
    /\ blocks = WordsOf(data)
    /\ \E s \in 0..MaxIvSeed : iv = from_le_bytes(PatternBytes(s + 1, 8))
    /\ \E s \in 0..MaxCnstSeed : cnst = from_le_bytes(PatternBytes(2 * s, 16))
    /\ digest = NotCalled
    /\ digest_iter = NotCalled

\* otp_digest(data, iv, cnst)
Digest ==
    /\ digest = NotCalled
    /\ digest' = otp_digest(data, iv, cnst)
    /\ UNCHANGED <<data, blocks, iv, cnst, digest_iter>>
    /\ UNCHANGED <<presentVars, pdsVars, scrambleVars, otherVars, flashVars, vdmVars>>

\* otp_digest_iter(blocks, iv, cnst)
DigestIter ==
    /\ digest_iter = NotCalled
    /\ digest_iter' = Returned(otp_digest_iter(blocks, iv, cnst))
    /\ UNCHANGED <<data, blocks, iv, cnst, digest>>
    /\ UNCHANGED <<presentVars, pdsVars, scrambleVars, otherVars, flashVars, vdmVars>>

DigestNext == Digest \/ DigestIter

InitDigest == DigestInit /\ PresentIdle /\ PdsIdle /\ ScrambleIdle /\ OtherIdle /\ FlashIdle /\ VdmIdle

SpecDigest == InitDigest /\ [][DigestNext]_vars

(***************************************************************************)
(* Descriptor-store specification: a store image is validated, then one    *)
(* of the walkers is called on it and runs iteration by iteration.         *)
(***************************************************************************)
MaxDescs == 3     \* short chains have 0..MaxDescs descriptors
MaxCap == 4       \* max_descriptors is drawn from 0..MaxCap and the default cap
MaxStop == 2      \* the callback stops at its k-th call, k in 1..MaxStop, or never

\* 0xFFFF_FFE0: adding the descriptor header size gives exactly 2^32
U32WrapsAtHeader == <<65535, 65504>>

BadMagic == <<20548, 21298>>

\* header_crc ^= 1
BreakCrc(buf) == WriteU32(buf, 8, U32Xor(ReadU32(buf, 8), <<0, 1>>))

\* field overwrites of descriptor k in an image of length L
DescriptorOverwrites(k, L) ==
    LET o == OffsetOf(k)
    IN  {<<o, v>> : v \in {U32Zero, U32Of(31), U32Of(33), U32Max}}
        \cup {<<o + 4, v>> : v \in {U32Zero, U32Of(L), U32Of(L + 1), U32Max}}
        \cup {<<o + 8, v>> : v \in {U32Zero, U32Of(L), U32Max}}
        \cup {<<o + 12, v>> : v \in {U32Zero, U32Of(o), U32Of(16), U32Of(HEADER_SIZE),
                                     U32Of(o + 1), U32Of(L - 31), U32Of(L),
                                     U32WrapsAtHeader, U32Max}}

\* overwrites of header.first_descriptor_offset
FirstOffsetOverwrites(L) ==
    {<<16, v>> : v \in {U32Zero, U32Of(1), U32Of(16), U32Of(OffsetOf(2)), U32Of(L - 32),
                        U32Of(L - 31), U32Of(L), U32WrapsAtHeader, U32Max}}

\* images with a valid header and at most one overwritten chain field
ChainImages ==
    UNION {LET base == build_pds(Descriptors(n))
               L == Len(base)
               ws == FirstOffsetOverwrites(L)
                     \cup UNION {DescriptorOverwrites(k, L) : k \in 1..n}
           IN  {base} \cup {Reseal(WriteU32(base, w[1], w[2])) : w \in ws}
           : n \in 0..MaxDescs}

\* images of a one-descriptor store whose header fields are overwritten, whose
\* CRC is recomputed or left wrong, and which may be cut short
HeaderImages ==
    LET base == build_pds(Descriptors(1))
        L == Len(base)
    IN  {LET written == WriteU32(WriteU32(WriteU32(base, 0, magic), 12, version), 4, size)
             sealed == IF sound THEN Reseal(written) ELSE BreakCrc(Reseal(written))
         IN  SubSeq(sealed, 1, cut)
         : magic \in {PDS_MAGIC, BadMagic},
           version \in {U32Zero, PDS_HEADER_VERSION, U32Of(2), U32Max},
           size \in {U32Zero, U32Of(HEADER_SIZE - 1), U32Of(HEADER_SIZE),
                     U32Of(HEADER_SIZE + 4), U32Of(L), U32Of(L + 1), U32Max},
           sound \in BOOLEAN,
           cut \in {4, HEADER_SIZE - 1, L}}

\* chains as long as the default cap, and one longer; the descriptor at the
\* cap may point back to itself or to the first descriptor
LongImages ==
    UNION {LET base == build_pds(Descriptors(n))
               last == OffsetOf(DEFAULT_MAX_DESCRIPTORS)
           IN  {base, WriteU32(base, last + 12, U32Of(last)),
                WriteU32(base, last + 12, U32Of(HEADER_SIZE))}
           : n \in {DEFAULT_MAX_DESCRIPTORS, DEFAULT_MAX_DESCRIPTORS + 1}}

\* a store whose first_descriptor_offset points into the version string, which
\* holds the bytes of a descriptor header (payload: the 4 magic bytes; next: the
\* descriptor after the header), sealed with a correct CRC
DescriptorInHeaderImage ==
    LET base == build_pds(Descriptors(1))
        inside == DescriptorBytes([header_size            |-> U32Of(DESC_HEADER_SIZE),
                                   payload_offset         |-> U32Zero,
                                   payload_size           |-> U32Of(4),
                                   next_descriptor_offset |-> U32Of(HEADER_SIZE),
                                   descriptor_type        |-> Uuid(2)])
        written == SubSeq(base, 1, 20) \o inside \o SubSeq(base, 53, Len(base))
    IN  Reseal(WriteU32(written, 16, U32Of(20)))

\* a store of one descriptor whose type bytes are themselves the first 16 bytes
\* of a descriptor header, and whose next_descriptor_offset points at them
OverlappingDescriptorsImage ==
    LET inner == U32Bytes(U32Of(DESC_HEADER_SIZE)) \o U32Bytes(U32Zero)
                 \o U32Bytes(U32Of(4)) \o U32Bytes(U32Zero)
        base == build_pds(<<[uuid |-> inner, payload |-> Uuid(3)]>>)
    IN  WriteU32(base, HEADER_SIZE + 12, U32Of(HEADER_SIZE + 16))

AliasImages == {DescriptorInHeaderImage, OverlappingDescriptorsImage}

\* stores in which one descriptor fails two checks at once: an undersized
\* header_size together with a payload that leaves the buffer
TwoFaultImages ==
    UNION {LET base == build_pds(Descriptors(n))
               o == OffsetOf(n)
           IN  {WriteU32(WriteU32(base, o, U32Of(DESC_HEADER_SIZE - 1)), o + 8, U32Max),
                WriteU32(WriteU32(base, o, U32Zero), o + 4, U32Of(Len(base) + 1))}
           : n \in 1..2}

PdsInit ==
    /\ pc = "start"
    /\ pds \in ChainImages \cup HeaderImages \cup LongImages \cup AliasImages \cup TwoFaultImages
    /\ usize_bits \in {32, 64}
    /\ validated = Pending
    /\ max_descriptors = 0 /\ stop_at = 0 /\ uuid = <<>>
    /\ next_offset = U32Zero /\ count = 0 /\ prev_offset = U32Zero
    /\ calls = <<>> /\ reads = <<>> /\ iterations = 0 /\ result = Pending

\* validate_header(&pds)
ValidateHeader ==
    /\ pc = "start"
    /\ validated' = validate_header(pds)
    /\ pc' = "validated"
    /\ UNCHANGED <<pds, usize_bits, max_descriptors, stop_at, uuid, next_offset, count,
                   prev_offset, calls, reads, iterations, result>>
    /\ UNCHANGED <<presentVars, digestVars, scrambleVars, otherVars, flashVars, vdmVars>>

\* the first_descriptor_offset of the header handed to a walker: that of the
\* header read from the store, or any value when the store holds no header
FirstOffsets ==
    IF ReadHeader(pds) = None THEN {U32Zero, U32Of(1), U32Max}
    ELSE {ReadHeader(pds)[1].first_descriptor_offset}

\* for_each_descriptor(&pds, &header, max_descriptors, callback): entry
ForEachCall ==
    /\ pc = "validated"
    /\ \E m \in (0..MaxCap) \cup {DEFAULT_MAX_DESCRIPTORS} : max_descriptors' = m
    /\ \E s \in 0..MaxStop : stop_at' = s
    /\ \E first \in FirstOffsets : next_offset' = first
    /\ count' = 0
    /\ prev_offset' = U32Zero
    /\ pc' = "for_each"
    /\ UNCHANGED <<pds, usize_bits, validated, uuid, calls, reads, iterations, result>>
    /\ UNCHANGED <<presentVars, digestVars, scrambleVars, otherVars, flashVars, vdmVars>>

\* for_each_descriptor: one iteration of the loop, or the return after it
ForEachIteration ==
    /\ pc = "for_each"
    /\ LET continues == stop_at = 0 \/ Len(calls) + 1 # stop_at
           it == for_each_iteration(pds, max_descriptors, continues, usize_bits,
                                    next_offset, count, prev_offset)
       IN  /\ calls' = calls \o it.yielded
           /\ reads' = reads \o it.reads
           /\ iterations' = iterations + 1
           /\ IF it.returned
              THEN /\ result' = it.result
                   /\ pc' = "returned"
                   /\ UNCHANGED <<next_offset, count, prev_offset>>
              ELSE /\ next_offset' = it.next_offset
                   /\ count' = it.count
                   /\ prev_offset' = it.prev_offset
                   /\ UNCHANGED <<result, pc>>
    /\ UNCHANGED <<pds, usize_bits, validated, max_descriptors, stop_at, uuid>>
    /\ UNCHANGED <<presentVars, digestVars, scrambleVars, otherVars, flashVars, vdmVars>>

\* find_descriptor(&pds, &header, &uuid): entry
FindCall ==
    /\ pc = "validated"
    /\ \E t \in 1..4 : uuid' = Uuid(t)
    /\ \E first \in FirstOffsets : next_offset' = first
    /\ count' = 0
    /\ prev_offset' = U32Zero
    /\ pc' = "find"
    /\ UNCHANGED <<pds, usize_bits, validated, max_descriptors, stop_at, calls, reads,
                   iterations, result>>
    /\ UNCHANGED <<presentVars, digestVars, scrambleVars, otherVars, flashVars, vdmVars>>

\* find_descriptor: one iteration of the loop, or the return after it
FindIteration ==
    /\ pc = "find"
    /\ LET it == find_iteration(pds, uuid, usize_bits, next_offset, count, prev_offset)
       IN  /\ reads' = reads \o it.reads
           /\ iterations' = iterations + 1
           /\ IF it.returned
              THEN /\ result' = it.result
                   /\ pc' = "returned"
                   /\ UNCHANGED <<next_offset, count, prev_offset>>
              ELSE /\ next_offset' = it.next_offset
                   /\ count' = it.count
                   /\ prev_offset' = it.prev_offset
                   /\ UNCHANGED <<result, pc>>
    /\ UNCHANGED <<pds, usize_bits, validated, max_descriptors, stop_at, uuid, calls>>
    /\ UNCHANGED <<presentVars, digestVars, scrambleVars, otherVars, flashVars, vdmVars>>

PdsNext == ValidateHeader \/ ForEachCall \/ ForEachIteration \/ FindCall \/ FindIteration

InitPds == PdsInit /\ PresentIdle /\ DigestIdle /\ ScrambleIdle /\ OtherIdle /\ FlashIdle /\ VdmIdle

SpecPds == InitPds /\ [][PdsNext]_vars

(***************************************************************************)
(* Scrambling specification: a word is scrambled and the result            *)
(* unscrambled, or the word itself is unscrambled.                         *)
(***************************************************************************)
MaxWordSeed == 4
MaxScrambleKeySeed == 4

\* 0x0123456789abcdef, the word and both key halves of
\* test_matches_python_128_and_is_little_endian
TestWord == Bits([k \in 1..64 |-> ((15 - ((k - 1) \div 4)) \div Pow2((k - 1) % 4)) % 2])

ScrambleInit ==
    /\ opc = "start"
    /\ otp_data \in {TestWord} \cup {from_le_bytes(PatternBytes(s, 8)) : s \in 0..MaxWordSeed}
    /\ otp_key \in {TestWord \o TestWord}
                   \cup {from_le_bytes(PatternBytes(s, 16)) : s \in 0..MaxScrambleKeySeed}
    /\ scrambled = Zero64
    /\ unscramble_arg = Zero64
    /\ unscrambled = Zero64

\* otp_scramble(otp_data, otp_key)
Scramble ==
    /\ opc = "start"
    /\ scrambled' = otp_scramble(otp_data, otp_key)
    /\ opc' = "scrambled"
    /\ UNCHANGED <<otp_data, otp_key, unscramble_arg, unscrambled>>
    /\ UNCHANGED <<presentVars, digestVars, pdsVars, otherVars, flashVars, vdmVars>>

\* otp_unscramble of the scrambled word, or of the caller's word itself
Unscramble ==
    /\ opc \in {"start", "scrambled"}
    /\ unscramble_arg' = IF opc = "start" THEN otp_data ELSE scrambled
    /\ unscrambled' = otp_unscramble(unscramble_arg', otp_key)
    /\ opc' = "unscrambled"
    /\ UNCHANGED <<otp_data, otp_key, scrambled>>
    /\ UNCHANGED <<presentVars, digestVars, pdsVars, otherVars, flashVars, vdmVars>>

ScrambleNext == Scramble \/ Unscramble

InitScramble == ScrambleInit /\ PresentIdle /\ DigestIdle /\ PdsIdle /\ OtherIdle /\ FlashIdle /\ VdmIdle

SpecScramble == InitScramble /\ [][ScrambleNext]_vars

(***************************************************************************)
(* Corrupted-header specification: the valid empty store with one byte of  *)
(* its version string changed is validated.                                *)
(***************************************************************************)
MaxCorruptValues == 6    \* the changed byte takes MaxCorruptValues different values

\* a value different from the 0 that build_pds writes into the version string
CorruptValue(k) == (k * 85) % 256

\* pds[offset] = value, offset counted from 0
WriteByte(buf, offset, value) ==
    SubSeq(buf, 1, offset) \o <<value>> \o SubSeq(buf, offset + 2, Len(buf))

CorruptInit ==
    /\ pc = "start"
    /\ \E empty \in {build_pds(<<>>)} :
          \E offset \in 20..(HEADER_SIZE - 1), k \in 1..MaxCorruptValues :
              pds = WriteByte(empty, offset, CorruptValue(k))
    /\ usize_bits = 64
    /\ validated = Pending
    /\ max_descriptors = 0 /\ stop_at = 0 /\ uuid = <<>>
    /\ next_offset = U32Zero /\ count = 0 /\ prev_offset = U32Zero
    /\ calls = <<>> /\ reads = <<>> /\ iterations = 0 /\ result = Pending

InitCorrupt == CorruptInit /\ PresentIdle /\ DigestIdle /\ ScrambleIdle /\ OtherIdle /\ FlashIdle /\ VdmIdle

SpecCorrupt == InitCorrupt /\ [][ValidateHeader]_vars


(***************************************************************************)
(* Two-buffer specification: validate_header is called on a store and on   *)
(* a copy of it in which one byte is changed.                              *)
(***************************************************************************)
MaxChangedOffset == 5   \* the changed byte is at offset 147 .. 147 + MaxChangedOffset, or the last

\* buf[offset] ^= 0xFF, offset counted from 0
FlipByte(buf, offset) == WriteByte(buf, offset, 255 - buf[offset + 1])

\* one-descriptor stores whose header_size is that of the struct, four bytes
\* more, or the whole buffer, with a correct or an incorrect CRC
SizedImages ==
    LET base == build_pds(Descriptors(1))
    IN  {IF sound THEN Reseal(WriteU32(base, 4, size))
         ELSE BreakCrc(Reseal(WriteU32(base, 4, size)))
         : size \in {U32Of(HEADER_SIZE), U32Of(HEADER_SIZE + 4), U32Of(Len(base)),
                     U32Of(Len(base) + 1)},
           sound \in BOOLEAN}

TwoBufferInit ==
    /\ pc = "start"
    /\ pc_b = "start"
    /\ \E image \in SizedImages :
          /\ pds = image
          /\ \E offset \in ((HEADER_SIZE - 1)..(HEADER_SIZE - 1 + MaxChangedOffset))
                           \cup {Len(image) - 1} :
                pds_b = FlipByte(image, offset)
    /\ usize_bits = 64
    /\ validated = Pending
    /\ validated_b = Pending
    /\ max_descriptors = 0 /\ stop_at = 0 /\ uuid = <<>>
    /\ next_offset = U32Zero /\ count = 0 /\ prev_offset = U32Zero
    /\ calls = <<>> /\ reads = <<>> /\ iterations = 0 /\ result = Pending

\* validate_header(&pds_b)
ValidateHeaderB ==
    /\ pc_b = "start"
    /\ validated_b' = validate_header(pds_b)
    /\ pc_b' = "validated"
    /\ UNCHANGED pds_b
    /\ UNCHANGED <<presentVars, digestVars, pdsVars, scrambleVars, flashVars, vdmVars>>

TwoBufferNext == ValidateHeader \/ ValidateHeaderB

InitTwoBuffer == TwoBufferInit /\ PresentIdle /\ DigestIdle /\ ScrambleIdle /\ FlashIdle /\ VdmIdle

SpecTwoBuffer == InitTwoBuffer /\ [][TwoBufferNext]_vars

(***************************************************************************)
(* Flash-controller specification: a requester fills the mailbox and sets  *)
(* execute, and clears execute again; the controller thread polls, and     *)
(* after a request waits for execute to clear or for its timeout.          *)
(***************************************************************************)
MaxRequests == 2      \* requests the requester issues
MaxWriteSeed == 0     \* written pages are drawn from patterns 0..MaxWriteSeed
MaxProcessed == 2     \* the wait times out only while fewer requests were processed in all

SramWords == 66

\* the page the flash file is created with (initial_content), at page 0
InitialContent == PatternBytes(5, PAGE_SIZE)

\* the 64 words a requester puts at SRAM words 2..65 for a Write
WriteWords(seed) ==
    Bits([i \in 1..(PAGE_SIZE \div 4) |->
            <<PatternByte(seed + 2, 4 * i - 1) + 256 * PatternByte(seed + 2, 4 * i),
              PatternByte(seed + 2, 4 * i - 3) + 256 * PatternByte(seed + 2, 4 * i - 2)>>])

ValidPages == {U32Zero, U32Of(NUM_PAGES - 1)}

\* what a requester writes: command, page number, size word, page pattern
MailboxRequests ==
    {[cmd |-> U32Of(c), page |-> p, size |-> U32Of(PAGE_SIZE), seed |-> 0]
        : c \in {1, 3}, p \in ValidPages}
    \cup {[cmd |-> U32Of(2), page |-> p, size |-> U32Of(PAGE_SIZE), seed |-> d]
        : p \in ValidPages, d \in 0..MaxWriteSeed}
    \cup {[cmd |-> U32Of(c), page |-> U32Zero, size |-> U32Of(PAGE_SIZE), seed |-> 0]
        : c \in {0, 4}}
    \cup {[cmd |-> U32Of(c), page |-> U32Of(NUM_PAGES), size |-> U32Of(PAGE_SIZE), seed |-> 0]
        : c \in 1..3}
    \cup {[cmd |-> U32Of(c), page |-> U32Zero, size |-> U32Of(PAGE_SIZE - 1), seed |-> 0]
        : c \in 1..3}

FlashInit ==
    /\ cpc = "poll"
    /\ busy = FALSE
    /\ execute = "CLEAR"
    /\ cmd = U32Zero
    /\ dlen = U32Zero
    /\ target_status = StatusCleared
    /\ sram = Bits([k \in 1..SramWords |-> U32Zero])
    /\ flash = [p \in {0} |-> InitialContent]
    /\ requests = 0
    /\ processed = 0
    /\ last_poll = "none"
    /\ log = <<>>

\* the requester writes a request into the free mailbox and sets execute
Request ==
    /\ execute = "CLEAR"
    /\ requests < MaxRequests
    /\ \E r \in MailboxRequests :
          /\ cmd' = r.cmd
          /\ sram' = IF r.cmd = U32Of(2)
                     THEN <<r.page, r.size>> \o WriteWords(r.seed)
                     ELSE <<r.page, r.size>> \o SubSeq(sram, 3, SramWords)
    /\ execute' = "SET"
    /\ requests' = requests + 1
    /\ processed' = 0
    /\ UNCHANGED <<cpc, busy, dlen, target_status, flash, last_poll, log>>
    /\ UNCHANGED <<presentVars, digestVars, pdsVars, scrambleVars, otherVars, vdmVars>>

\* the requester clears execute
Release ==
    /\ execute = "SET"
    /\ execute' = "CLEAR"
    /\ UNCHANGED <<cpc, busy, cmd, dlen, target_status, sram, flash, requests, processed,
                   last_poll, log>>
    /\ UNCHANGED <<presentVars, digestVars, pdsVars, scrambleVars, otherVars, vdmVars>>

\* poll_mailbox_and_process, from its entry to the wait loop
Poll ==
    /\ cpc = "poll"
    /\ IF busy \/ execute # "SET"
       THEN /\ last_poll' = "idle"
            /\ UNCHANGED <<cpc, busy, cmd, dlen, target_status, sram, flash, processed, log>>
       ELSE LET done == ProcessRequest(cmd, sram, dlen, flash)
            IN  /\ sram' = done.sram
                /\ dlen' = done.dlen
                /\ flash' = done.flash
                /\ target_status' = StatusRegister(done.status_field)
                /\ busy' = FALSE
                /\ cpc' = "wait"
                /\ processed' = processed + 1
                /\ last_poll' = "processed"
                /\ log' = Append(log, [cmd |-> cmd, page_num |-> sram[1], size |-> sram[2],
                                       words |-> IF FlashOp(cmd) = "Write"
                                                 THEN SubSeq(sram, 3, 2 + PAGE_SIZE \div 4)
                                                 ELSE <<>>,
                                       status |-> done.status_field,
                                       request |-> requests])
                /\ UNCHANGED cmd
    /\ UNCHANGED <<execute, requests>>
    /\ UNCHANGED <<presentVars, digestVars, pdsVars, scrambleVars, otherVars, vdmVars>>

\* the loop after a request: it ends when execute reads CLEAR, or when 100 ms
\* have passed; prev_execute is SET in every iteration that does not end it
WaitForClear ==
    /\ cpc = "wait"
    /\ \E timed_out \in BOOLEAN :
          /\ timed_out => Len(log) < MaxProcessed
          /\ execute = "CLEAR" \/ timed_out
    /\ cpc' = "poll"
    /\ UNCHANGED <<busy, execute, cmd, dlen, target_status, sram, flash, requests, processed,
                   last_poll, log>>
    /\ UNCHANGED <<presentVars, digestVars, pdsVars, scrambleVars, otherVars, vdmVars>>

FlashNext == Request \/ Release \/ Poll \/ WaitForClear

InitFlash == FlashInit /\ PresentIdle /\ DigestIdle /\ PdsIdle /\ ScrambleIdle /\ OtherIdle /\ VdmIdle

SpecFlash == InitFlash /\ [][FlashNext]_vars

(***************************************************************************)
(* The VDM service: a caller that starts and stops it in any order, and    *)
(* the responder tasks the executor runs in between.                       *)
(***************************************************************************)
MaxTasks == 2
MaxStarts == 4
MaxMessages == 3

VdmInit ==
    /\ running = FALSE
    /\ tasks = [i \in 1..MaxTasks |-> "free"]
    /\ last_start = NoStart
    /\ panicked = FALSE
    /\ starts = 0
    /\ handled = 0

\* VdmService::start; it has no await, so it runs as one step
VdmStart ==
    /\ ~panicked
    /\ starts < MaxStarts
    /\ starts' = starts + 1
    /\ LET seen == [was_running |-> running,
                    live_before |-> Cardinality(LiveResponders(tasks))]
       IN  IF running
           THEN /\ last_start' = seen @@ [result |-> "StartError", spawned |-> 0]
                /\ UNCHANGED <<running, tasks, panicked>>
           ELSE /\ running' = TRUE
                /\ IF FreeStorage(tasks) = {}
                   THEN /\ panicked' = TRUE
                        /\ tasks' = [i \in DOMAIN tasks |-> "free"]
                        /\ last_start' = seen @@ [result |-> "panic", spawned |-> 0]
                   ELSE LET slot == CHOOSE i \in FreeStorage(tasks) :
                                        \A j \in FreeStorage(tasks) : i <= j
                        IN  /\ tasks' = [tasks EXCEPT ![slot] = "head"]
                            /\ last_start' = seen @@ [result |-> "Ok", spawned |-> slot]
                            /\ UNCHANGED panicked
    /\ UNCHANGED handled
    /\ UNCHANGED <<presentVars, digestVars, pdsVars, scrambleVars, otherVars, flashVars>>

\* VdmService::stop
VdmStop ==
    /\ ~panicked
    /\ running' = FALSE
    /\ UNCHANGED <<tasks, last_start, panicked, starts, handled>>
    /\ UNCHANGED <<presentVars, digestVars, pdsVars, scrambleVars, otherVars, flashVars>>

\* vdm_responder polled for the first time: it tests the flag, then either
\* awaits the next message or returns, which frees its storage
ResponderTestsFlag ==
    /\ ~panicked
    /\ \E i \in DOMAIN tasks :
          /\ tasks[i] = "head"
          /\ tasks' = [tasks EXCEPT ![i] = IF running THEN "handling" ELSE "free"]
    /\ UNCHANGED <<running, last_start, panicked, starts, handled>>
    /\ UNCHANGED <<presentVars, digestVars, pdsVars, scrambleVars, otherVars, flashVars>>

\* handle_responder_msg completes, with Ok or with an error that is printed;
\* the loop tests the flag again before its next await
ResponderHandlesMessage ==
    /\ ~panicked
    /\ handled < MaxMessages
    /\ \E i \in DOMAIN tasks :
          /\ tasks[i] = "handling"
          /\ tasks' = [tasks EXCEPT ![i] = IF running THEN "handling" ELSE "free"]
    /\ handled' = handled + 1
    /\ UNCHANGED <<running, last_start, panicked, starts>>
    /\ UNCHANGED <<presentVars, digestVars, pdsVars, scrambleVars, otherVars, flashVars>>

VdmNext == VdmStart \/ VdmStop \/ ResponderTestsFlag \/ ResponderHandlesMessage

InitVdm == VdmInit /\ PresentIdle /\ DigestIdle /\ PdsIdle /\ ScrambleIdle /\ OtherIdle /\ FlashIdle

SpecVdm == InitVdm /\ [][VdmNext]_vars

(***************************************************************************)
(* C1: for every block and every key of either width,                      *)
(* decrypt_block(encrypt_block(b)) = b.                                    *)
(***************************************************************************)
C1_DecryptInvertsEncrypt == ppc = "decrypted" => pt = block

C1_Witness ==
    /\ ppc = "decrypted" /\ Len(key) = 10 /\ key # PatternBytes(0, 10)
    /\ block # Zero64 /\ ct # block /\ pt = block

(***************************************************************************)
(* C2: for a buffer whose length is a multiple of 8, otp_digest over the   *)
(* bytes equals otp_digest_iter over the same bytes decoded as consecutive *)
(* little-endian 64-bit words.                                             *)
(***************************************************************************)
C2_DigestMatchesIter ==
    (Len(data) % 8 = 0 /\ digest # NotCalled /\ digest_iter # NotCalled)
        => (digest.state = "ok" /\ digest = digest_iter)

C2_Witness ==
    /\ Len(data) = 24 /\ digest.state = "ok" /\ digest_iter.state = "ok"
    /\ digest.value # Zero64 /\ digest = digest_iter

(***************************************************************************)
(* What a store image describes, read directly from its bytes.  These      *)
(* definitions state the claims; the parser does not use them.             *)
(***************************************************************************)
\* the little-endian u32 stored at byte offset off
LeU32(bytes, off) ==
    <<bytes[off + 3] + 256 * bytes[off + 4], bytes[off + 1] + 256 * bytes[off + 2]>>

\* bytes [start, start + n) of the image
BytesAt(bytes, start, n) == Bits([k \in 1..n |-> bytes[start + k]])

\* the region [start, start + size) lies within a buffer of L bytes (L < 2^16)
RegionInside(start, size, L) == start[1] = 0 /\ size[1] = 0 /\ start[2] + size[2] <= L

\* the descriptor at byte offset o is well-formed
WellFormedAt(bytes, o) ==
    /\ RegionInside(o, U32Of(DESC_HEADER_SIZE), Len(bytes))
    /\ ~U32Lt(LeU32(bytes, o[2]), U32Of(DESC_HEADER_SIZE))
    /\ RegionInside(LeU32(bytes, o[2] + 4), LeU32(bytes, o[2] + 8), Len(bytes))

\* Follows the chain from offset o.  offsets: the well-formed descriptors met, each
\* after the first at a greater offset than its predecessor; stop: "end" (a next
\* offset of 0), "back" (a next offset not above its own descriptor, at: that
\* offset) or "malformed" (the descriptor at `at` is not well-formed).
RECURSIVE ChainFrom(_, _, _)
ChainFrom(bytes, o, offsets) ==
    IF o = U32Zero THEN [stop |-> "end", at |-> o, offsets |-> offsets]
    ELSE IF offsets # <<>> /\ U32Le(o, U32Of(offsets[Len(offsets)]))
        THEN [stop |-> "back", at |-> o, offsets |-> offsets]
    ELSE IF ~WellFormedAt(bytes, o) THEN [stop |-> "malformed", at |-> o, offsets |-> offsets]
    ELSE LET longer == Append(offsets, o[2])
         IN  IF Len(longer) > 0 THEN ChainFrom(bytes, LeU32(bytes, o[2] + 12), longer)
             ELSE [stop |-> "end", at |-> o, offsets |-> longer]

\* the type and the payload of the descriptor at byte offset o
TypeAt(bytes, o) == BytesAt(bytes, o + 16, 16)
PayloadAt(bytes, o) == BytesAt(bytes, LeU32(bytes, o + 4)[2], LeU32(bytes, o + 8)[2])
ViewAt(bytes, o) == [descriptor_type |-> TypeAt(bytes, o), payload |-> PayloadAt(bytes, o)]

\* the chain of the store the running walker was called on
WalkedChain == ChainFrom(pds, LeU32(pds, 16), <<>>)

\* the walker that was called
ForEachReturned == pc = "returned" /\ uuid = <<>>
FindReturned == pc = "returned" /\ uuid # <<>>
HeaderFromStore == Len(pds) >= HEADER_SIZE

\* the CRC register after dividing the message bits [lo, hi] (counted from 1,
\* most significant bit of each byte first) by x^32 + 0x04C11DB7, bit by bit
RECURSIVE DivideBits(_, _, _, _)
DivideBits(bytes, lo, hi, reg) ==
    IF lo > hi THEN reg
    ELSE IF lo = hi
        THEN LET bit == (bytes[((lo - 1) \div 8) + 1] \div (2 ^ (7 - ((lo - 1) % 8)))) % 2
                 top == reg[1] \div 32768
                 shifted == <<(2 * reg[1] + (reg[2] \div 32768)) % 65536, (2 * reg[2]) % 65536>>
             IN  IF top # bit THEN <<Xor16(shifted[1], 1217), Xor16(shifted[2], 7607)>>
                 ELSE shifted
    ELSE LET mid == (lo + hi) \div 2
             left == DivideBits(bytes, lo, mid, reg)
         IN  IF left[1] >= 0 THEN DivideBits(bytes, mid + 1, hi, left) ELSE left

\* CRC, polynomial 0x04C11DB7, initial value 0, MSB first, no final XOR
ReferenceCrc(bytes) == DivideBits(bytes, 1, 8 * Len(bytes), <<0, 0>>)

\* the kinds of PdsError
PdsErrorKinds ==
    {"BufferTooSmall", "InvalidMagic", "InvalidVersion", "InvalidHeaderSize", "InvalidCrc",
     "DescriptorOutOfBounds", "PayloadOutOfBounds", "DescriptorLoop",
     "InvalidDescriptorHeaderSize", "MaxDescriptorsExceeded"}

IsResultValue(r) == r.tag = "Ok" \/ (r.tag = "Err" /\ r.error.kind \in PdsErrorKinds)

(***************************************************************************)
(* C3: for every buffer and header, validate_header, for_each_descriptor   *)
(* and find_descriptor never abort and never read outside the buffer:      *)
(* every descriptor-header read and payload slice lies inside the buffer,  *)
(* and every fault is reported as a PdsError result value.                 *)
(***************************************************************************)
C3_NoAbortNoReadOutside ==
    /\ pc \notin {"idle", "start"} => IsResultValue(validated)
    /\ pc = "returned" => IsResultValue(result)
    /\ \A i \in 1..Len(reads) :
          0 <= reads[i][1] /\ reads[i][1] <= reads[i][2] /\ reads[i][2] <= Len(pds)

C3_Witness ==
    /\ pc = "returned" /\ usize_bits = 32 /\ Len(reads) = 3
    /\ result.tag = "Err" /\ result.error.kind = "DescriptorOutOfBounds"
    /\ result.error.offset = U32WrapsAtHeader

(***************************************************************************)
(* C4: both walkers terminate on every input.  for_each_descriptor calls   *)
(* the callback at most max_descriptors times and leaves its loop within   *)
(* max_descriptors + 1 iterations; find_descriptor inspects at most 32     *)
(* descriptors and leaves its loop within 33 iterations.                   *)
(***************************************************************************)
C4_WalkersAreBounded ==
    /\ pc = "for_each" => (iterations = count /\ count <= max_descriptors)
    /\ ForEachReturned =>
          (Len(calls) <= max_descriptors /\ iterations <= max_descriptors + 1)
    /\ pc = "find" => (iterations = count /\ count <= DEFAULT_MAX_DESCRIPTORS)
    /\ FindReturned =>
          (Len(reads) <= DEFAULT_MAX_DESCRIPTORS + 1
           /\ iterations <= DEFAULT_MAX_DESCRIPTORS + 1)

C4_Witness ==
    /\ ForEachReturned /\ max_descriptors = MaxCap /\ stop_at = 0
    /\ Len(calls) = max_descriptors /\ iterations = max_descriptors + 1
    /\ result = Err(MaxDescriptorsExceeded)

(***************************************************************************)
(* C5: validate_header reports only the first failing check, in the order  *)
(* buffer shorter than the header (BufferTooSmall), magic (InvalidMagic),  *)
(* version below 1 (InvalidVersion), header_size below the header          *)
(* structure's size (InvalidHeaderSize), header_size above the buffer      *)
(* length (BufferTooSmall), CRC mismatch (InvalidCrc).                     *)
(***************************************************************************)
C5_FirstFailingCheck ==
    pc = "validated" =>
        IF Len(pds) < HEADER_SIZE THEN validated = Err(BufferTooSmall)
        ELSE IF LeU32(pds, 0) # <<20548, 21297>>
            THEN validated = Err(InvalidMagic(LeU32(pds, 0), <<20548, 21297>>))
        ELSE IF LeU32(pds, 12) = U32Zero
            THEN validated = Err(InvalidVersion(LeU32(pds, 12), <<0, 1>>))
        ELSE IF U32Lt(LeU32(pds, 4), U32Of(HEADER_SIZE))
            THEN validated = Err(InvalidHeaderSize(LeU32(pds, 4), U32Of(HEADER_SIZE)))
        ELSE IF U32Lt(U32Of(Len(pds)), LeU32(pds, 4)) THEN validated = Err(BufferTooSmall)
        ELSE \/ validated.tag = "Ok"
             \/ /\ validated.tag = "Err" /\ validated.error.kind = "InvalidCrc"
                /\ validated.error.found = LeU32(pds, 8)
                /\ validated.error.computed # LeU32(pds, 8)

\* a header with a wrong magic, a zero version, a short header_size and a wrong CRC
C5_Witness ==
    /\ pc = "validated" /\ Len(pds) >= HEADER_SIZE
    /\ LeU32(pds, 0) = BadMagic /\ LeU32(pds, 12) = U32Zero /\ LeU32(pds, 4) = U32Zero
    /\ validated = Err(InvalidMagic(BadMagic, PDS_MAGIC))

ChainViews == LET c == WalkedChain.offsets IN Bits([i \in 1..Len(c) |-> ViewAt(pds, c[i])])

\* the positions, among the first n descriptors of the walked chain, whose type is uuid
MatchesWithin(n) ==
    LET c == WalkedChain.offsets
    IN  {i \in 1..(IF n < Len(c) THEN n ELSE Len(c)) : TypeAt(pds, c[i]) = uuid}

FirstMatch == CHOOSE i \in MatchesWithin(Len(WalkedChain.offsets)) :
                 \A j \in MatchesWithin(Len(WalkedChain.offsets)) : i <= j

(***************************************************************************)
(* C7: on a well-formed chain of n <= max_descriptors descriptors at       *)
(* strictly increasing offsets, with a callback that always continues,     *)
(* for_each_descriptor calls the callback exactly n times, in chain order, *)
(* each time with that descriptor's type and exactly its payload bytes,    *)
(* and returns Ok.                                                         *)
(***************************************************************************)
C7_ForEachVisitsChainInOrder ==
    (/\ ForEachReturned /\ HeaderFromStore /\ stop_at = 0
     /\ WalkedChain.stop = "end"
     /\ Len(WalkedChain.offsets) <= max_descriptors)
        => (result = Ok(<<>>) /\ calls = ChainViews)

\* three descriptors under a cap of exactly three
C7_Witness ==
    /\ ForEachReturned /\ HeaderFromStore /\ stop_at = 0 /\ max_descriptors = MaxDescs
    /\ WalkedChain.stop = "end" /\ Len(WalkedChain.offsets) = MaxDescs
    /\ Len(calls) = MaxDescs /\ calls[2].payload = PayloadOf(2)
    /\ calls[1].descriptor_type = calls[MaxDescs].descriptor_type
    /\ result = Ok(<<>>)

(***************************************************************************)
(* C8: on a well-formed chain of at most 32 descriptors, find_descriptor   *)
(* returns the payload of the first descriptor whose type equals the       *)
(* requested identifier, and Ok(None) when no descriptor has that type.    *)
(***************************************************************************)
C8_FindReturnsFirstMatch ==
    (/\ FindReturned /\ HeaderFromStore
     /\ WalkedChain.stop = "end"
     /\ Len(WalkedChain.offsets) <= DEFAULT_MAX_DESCRIPTORS)
        => result = IF MatchesWithin(DEFAULT_MAX_DESCRIPTORS) = {} THEN Ok(None)
                    ELSE Ok(Some(PayloadAt(pds, WalkedChain.offsets[FirstMatch])))

\* two descriptors of the requested type: the payload of the earlier one is returned
C8_Witness ==
    /\ FindReturned /\ HeaderFromStore /\ WalkedChain.stop = "end"
    /\ Len(WalkedChain.offsets) = MaxDescs
    /\ MatchesWithin(MaxDescs) = {1, MaxDescs}
    /\ result = Ok(Some(PayloadOf(1)))
    /\ PayloadAt(pds, WalkedChain.offsets[MaxDescs]) # PayloadOf(1)

\* the walker meets no matching descriptor among those it visits (find_descriptor),
\* or its callback never stops the walk (for_each_descriptor)
WalkRunsOn(n) ==
    \/ ForEachReturned /\ stop_at = 0
    \/ FindReturned /\ MatchesWithin(n) = {}

\* the cap of the walker that ran
WalkCap == IF uuid = <<>> THEN max_descriptors ELSE DEFAULT_MAX_DESCRIPTORS

(***************************************************************************)
(* C9 as stated: a chain in which some descriptor's non-zero next offset   *)
(* is less than or equal to its own offset makes both walkers return       *)
(* DescriptorLoop, even when the target offset holds well-formed data.     *)
(***************************************************************************)
C9_BackPointerIsLoop ==
    (/\ pc = "returned" /\ HeaderFromStore
     /\ WalkedChain.stop = "back"
     /\ WalkRunsOn(Len(WalkedChain.offsets)))
        => result = Err(DescriptorLoop(WalkedChain.at))

(***************************************************************************)
(* C9 amended: the back pointer is reported as DescriptorLoop provided the *)
(* walker has visited fewer descriptors than its cap when it follows the   *)
(* pointer; at the cap it returns MaxDescriptorsExceeded instead.          *)
(***************************************************************************)
C9_BackPointerIsLoopBelowCap ==
    (/\ pc = "returned" /\ HeaderFromStore
     /\ WalkedChain.stop = "back"
     /\ WalkRunsOn(Len(WalkedChain.offsets)))
        => result = IF Len(WalkedChain.offsets) < WalkCap
                    THEN Err(DescriptorLoop(WalkedChain.at))
                    ELSE Err(MaxDescriptorsExceeded)

\* a descriptor whose next offset is its own offset, which holds well-formed data
C9_Witness ==
    /\ FindReturned /\ HeaderFromStore /\ WalkedChain.stop = "back"
    /\ Len(WalkedChain.offsets) = 2
    /\ WalkedChain.at = U32Of(WalkedChain.offsets[2])
    /\ WellFormedAt(pds, WalkedChain.at)
    /\ MatchesWithin(2) = {}
    /\ result = Err(DescriptorLoop(WalkedChain.at))

(***************************************************************************)
(* C10: a chain of well-formed, forward-ordered descriptors longer than    *)
(* the cap makes the walker return MaxDescriptorsExceeded; a cap of 0      *)
(* rejects every non-empty chain; the cap of find_descriptor is 32.        *)
(***************************************************************************)
C10_LongChainExceedsCap ==
    (/\ pc = "returned" /\ HeaderFromStore
     /\ Len(WalkedChain.offsets) > WalkCap
     /\ WalkRunsOn(WalkCap))
        => result = Err(MaxDescriptorsExceeded)

\* find_descriptor on 33 descriptors, none of the first 32 of the requested type
C10_Witness ==
    /\ FindReturned /\ HeaderFromStore /\ WalkedChain.stop = "end"
    /\ Len(WalkedChain.offsets) = DEFAULT_MAX_DESCRIPTORS + 1
    /\ MatchesWithin(DEFAULT_MAX_DESCRIPTORS) = {}
    /\ MatchesWithin(DEFAULT_MAX_DESCRIPTORS + 1) # {}
    /\ iterations = DEFAULT_MAX_DESCRIPTORS + 1
    /\ result = Err(MaxDescriptorsExceeded)

\* the descriptor-header reads of the running walk, in order
HeaderReads == SelectSeq(reads, LAMBDA r : r[3] = "header")

\* a walker is running or has returned, on a header that validate_header accepted
WalkOnAcceptedHeader == pc \in {"for_each", "find", "returned"} /\ validated.tag = "Ok"

(***************************************************************************)
(* C11 as stated: whenever a walker, given an accepted header, yields or   *)
(* inspects a descriptor, its header region [offset, offset + 32) lies     *)
(* outside the store header [0, header_size) and overlaps no descriptor    *)
(* header visited earlier in the traversal.                                *)
(***************************************************************************)
C11_NoDescriptorAliasing ==
    WalkOnAcceptedHeader =>
        \A i \in 1..Len(HeaderReads) :
            /\ HeaderReads[i][1] >= ToInt(validated.value.header_size)
            /\ \A j \in 1..(i - 1) : HeaderReads[j][2] <= HeaderReads[i][1]

\* the positions in HeaderReads of the descriptors whose header_size is below 32
SmallHeaderSizeReads ==
    {i \in 1..Len(HeaderReads) :
        U32Lt(LeU32(pds, HeaderReads[i][1]), U32Of(DESC_HEADER_SIZE))}

\* the positions in HeaderReads of the descriptors whose payload region
\* [payload_offset, payload_offset + payload_size) does not lie within the buffer
PayloadOutsideReads ==
    {i \in 1..Len(HeaderReads) :
        ~RegionInside(LeU32(pds, HeaderReads[i][1] + 4), LeU32(pds, HeaderReads[i][1] + 8),
                      Len(pds))}

Least(S) == CHOOSE i \in S : \A j \in S : i <= j

(***************************************************************************)
(* C12 as stated: find_descriptor fails with                               *)
(* InvalidDescriptorHeaderSize{found, expected: 32} whenever a descriptor  *)
(* it reaches, matching or not, has a header_size field below 32 (stated   *)
(* for stores whose header validate_header accepts).                       *)
(***************************************************************************)
C12_FindRejectsSmallHeaderSize ==
    (FindReturned /\ validated.tag = "Ok" /\ SmallHeaderSizeReads # {}) =>
        result = Err(InvalidDescriptorHeaderSize(
                        LeU32(pds, HeaderReads[Least(SmallHeaderSizeReads)][1]),
                        U32Of(DESC_HEADER_SIZE)))

(***************************************************************************)
(* C13 as stated: find_descriptor fails with PayloadOutOfBounds{offset,    *)
(* size} whenever a descriptor it reaches before or at the match, matching *)
(* or not, has a payload region that does not lie within the buffer        *)
(* (stated for stores whose header validate_header accepts and whose       *)
(* reached descriptors all have a header_size of at least 32).             *)
(***************************************************************************)
C13_FindRejectsPayloadOutside ==
    (FindReturned /\ validated.tag = "Ok" /\ SmallHeaderSizeReads = {}
     /\ PayloadOutsideReads # {}) =>
        LET o == HeaderReads[Least(PayloadOutsideReads)][1]
        IN  result = Err(PayloadOutOfBounds(LeU32(pds, o + 4), LeU32(pds, o + 8)))

(***************************************************************************)
(* The digest as a chain of steps state := state XOR E_key(state), stated  *)
(* over the list of keys; otp_digest_iter does not use these definitions.  *)
(***************************************************************************)
\* E_key(state): PRESENT with the 128-bit key whose bits are key128
E(key128, state) == encrypt_block(generate_round_keys_128(to_le_bytes(key128)), state)

\* the keys of the data steps: pair k is blocks 2k-1 (low 64 bits) and 2k (high)
PairKeys(bs) ==
    Bits([k \in 1..((Len(bs) + 1) \div 2) |->
            bs[2 * k - 1] \o bs[IF 2 * k <= Len(bs) THEN 2 * k ELSE 2 * k - 1]])

RECURSIVE StepsFrom(_, _, _)
StepsFrom(state, keys, k) ==
    IF k > Len(keys) THEN state
    ELSE LET cipher == E(keys[k], state)
             next == Bits([b \in 1..64 |-> (state[b] + cipher[b]) % 2])
         IN  IF Len(next) = 64 THEN StepsFrom(next, keys, k + 1) ELSE next

\* ceil(n/2) data steps in input order, then the finalization step
DigestBySteps(bs, v, c) == StepsFrom(v, Append(PairKeys(bs), c), 1)

(***************************************************************************)
(* C14: for n blocks, iv and constant, otp_digest_iter returns the         *)
(* accumulator that starts at iv and takes exactly ceil(n/2) data steps in *)
(* input order and then one finalization step, each step being             *)
(* state := state XOR E_key(state); the key of a pair (b0, b1) is b0 in    *)
(* the low and b1 in the high 64 bits, the key of the finalization is the  *)
(* constant; for n = 0 the result is iv XOR E_cnst(iv).                    *)
(***************************************************************************)
C14_DigestIsChainOfSteps ==
    digest_iter # NotCalled =>
        /\ digest_iter = Returned(DigestBySteps(blocks, iv, cnst))
        /\ Len(Append(PairKeys(blocks), cnst)) = ((Len(blocks) + 1) \div 2) + 1

\* four blocks: two data steps with distinct halves, then the finalization
C14_Witness ==
    /\ digest_iter # NotCalled
    /\ Len(blocks) = MaxBlocks /\ blocks[1] # blocks[2]
    /\ digest_iter.value # iv
    /\ digest_iter.value = DigestBySteps(blocks, iv, cnst)

(***************************************************************************)
(* C15: an odd number of blocks makes the last block both halves of the    *)
(* last key, so the digest of b1..bn (n odd) equals the digest of b1..bn   *)
(* followed by a second copy of bn, for the same iv and constant.          *)
(***************************************************************************)
C15_OddTailIsSelfPaired ==
    (digest_iter # NotCalled /\ Len(blocks) % 2 = 1) =>
        digest_iter =
            Returned(otp_digest_iter(Append(blocks, blocks[Len(blocks)]), iv, cnst))

\* three blocks, the last one not zero
C15_Witness ==
    /\ digest_iter # NotCalled
    /\ Len(blocks) = 3 /\ blocks[3] # Zero64
    /\ digest_iter.value # iv
    /\ digest_iter.value = otp_digest_iter(Append(blocks, blocks[3]), iv, cnst)

(***************************************************************************)
(* Hexadecimal constants: Hex64(d) is the u64 whose 16 hexadecimal digits, *)
(* most significant first, are d.                                          *)
(***************************************************************************)
Hex64(d) == Bits([k \in 1..64 |-> (d[16 - ((k - 1) \div 4)] \div Pow2((k - 1) % 4)) % 2])

\* the fixtures of the crate's tests
ROUND_KEYS_80 ==
    <<Hex64(<<0, 0, 0, 0, 0, 0, 0, 0, 0, 0, 0, 0, 0, 0, 0, 0>>),
      Hex64(<<12, 0, 0, 0, 0, 0, 0, 0, 0, 0, 0, 0, 0, 0, 0, 0>>),
      Hex64(<<5, 0, 0, 0, 1, 8, 0, 0, 0, 0, 0, 0, 0, 0, 0, 1>>),
      Hex64(<<6, 0, 0, 0, 0, 10, 0, 0, 0, 3, 0, 0, 0, 0, 0, 1>>),
      Hex64(<<11, 0, 0, 0, 0, 12, 0, 0, 0, 1, 4, 0, 0, 0, 6, 2>>),
      Hex64(<<9, 0, 0, 0, 1, 6, 0, 0, 0, 1, 8, 0, 0, 0, 2, 10>>),
      Hex64(<<0, 0, 0, 1, 9, 2, 0, 0, 0, 2, 12, 0, 0, 0, 3, 3>>),
      Hex64(<<10, 0, 0, 0, 10, 0, 0, 0, 3, 2, 4, 0, 0, 0, 5, 11>>),
      Hex64(<<13, 0, 0, 0, 13, 4, 0, 0, 1, 4, 0, 0, 0, 6, 4, 12>>),
      Hex64(<<3, 0, 0, 1, 7, 10, 0, 0, 1, 10, 8, 0, 0, 2, 8, 4>>),
      Hex64(<<14, 0, 1, 9, 2, 6, 0, 0, 2, 15, 4, 0, 0, 3, 5, 5>>),
      Hex64(<<15, 0, 0, 10, 1, 12, 0, 3, 2, 4, 12, 0, 0, 5, 14, 13>>),
      Hex64(<<8, 0, 0, 13, 5, 14, 0, 1, 4, 3, 8, 0, 6, 4, 9, 14>>),
      Hex64(<<4, 0, 1, 7, 11, 0, 0, 1, 10, 11, 12, 0, 2, 8, 7, 6>>),
      Hex64(<<7, 1, 9, 2, 6, 8, 0, 2, 15, 6, 0, 0, 3, 5, 7, 15>>),
      Hex64(<<1, 0, 10, 1, 12, 14, 3, 2, 4, 13, 0, 0, 5, 14, 12, 7>>),
      Hex64(<<2, 0, 13, 5, 14, 2, 1, 4, 3, 9, 12, 6, 4, 9, 10, 8>>),
      Hex64(<<12, 1, 7, 11, 0, 4, 1, 10, 11, 12, 4, 2, 8, 7, 3, 0>>),
      Hex64(<<12, 9, 2, 6, 11, 8, 2, 15, 6, 0, 8, 3, 5, 7, 8, 1>>),
      Hex64(<<6, 10, 1, 12, 13, 9, 2, 4, 13, 7, 0, 5, 14, 12, 1, 9>>),
      Hex64(<<11, 13, 5, 14, 0, 13, 4, 3, 9, 11, 2, 4, 9, 10, 14, 10>>),
      Hex64(<<0, 7, 11, 0, 7, 7, 10, 11, 12, 1, 10, 8, 7, 3, 6, 14>>),
      Hex64(<<4, 2, 6, 11, 10, 0, 15, 6, 0, 14, 15, 5, 7, 8, 3, 14>>),
      Hex64(<<4, 1, 12, 13, 10, 8, 4, 13, 7, 4, 1, 14, 12, 1, 13, 5>>),
      Hex64(<<15, 5, 14, 0, 14, 8, 3, 9, 11, 5, 0, 9, 10, 14, 8, 15>>),
      Hex64(<<2, 11, 0, 7, 5, 14, 11, 12, 1, 13, 0, 7, 3, 6, 10, 13>>),
      Hex64(<<8, 6, 11, 10, 2, 5, 6, 0, 14, 11, 13, 7, 8, 3, 10, 13>>),
      Hex64(<<8, 12, 13, 10, 11, 0, 13, 7, 4, 4, 10, 12, 1, 13, 7, 7>>),
      Hex64(<<1, 14, 0, 14, 11, 1, 9, 11, 5, 6, 1, 10, 14, 8, 9, 11>>),
      Hex64(<<13, 0, 7, 5, 12, 3, 12, 1, 13, 6, 3, 3, 6, 10, 12, 13>>),
      Hex64(<<8, 11, 10, 2, 7, 10, 0, 14, 11, 8, 7, 8, 3, 10, 12, 9>>),
      Hex64(<<6, 13, 10, 11, 3, 1, 7, 4, 4, 15, 4, 1, 13, 7, 0, 0>>)>>

ROUND_KEYS_128 ==
    <<Hex64(<<0, 0, 0, 0, 0, 0, 0, 0, 0, 0, 0, 0, 0, 0, 0, 0>>),
      Hex64(<<12, 12, 0, 0, 0, 0, 0, 0, 0, 0, 0, 0, 0, 0, 0, 0>>),
      Hex64(<<12, 3, 0, 0, 0, 0, 0, 0, 0, 0, 0, 0, 0, 0, 0, 0>>),
      Hex64(<<5, 11, 3, 0, 0, 0, 0, 0, 0, 0, 0, 0, 0, 0, 0, 0>>),
      Hex64(<<5, 8, 0, 12, 0, 0, 0, 0, 0, 0, 0, 0, 0, 0, 0, 1>>),
      Hex64(<<6, 5, 6, 12, 12, 0, 0, 0, 0, 0, 0, 0, 0, 0, 0, 1>>),
      Hex64(<<6, 14, 6, 0, 3, 0, 0, 0, 0, 0, 0, 0, 0, 0, 0, 1>>),
      Hex64(<<11, 5, 9, 5, 11, 3, 0, 0, 0, 0, 0, 0, 0, 0, 0, 1>>),
      Hex64(<<11, 14, 11, 9, 8, 0, 12, 0, 0, 0, 0, 0, 0, 0, 0, 2>>),
      Hex64(<<9, 6, 13, 6, 5, 6, 12, 12, 0, 0, 0, 0, 0, 0, 0, 2>>),
      Hex64(<<9, 15, 15, 10, 14, 6, 0, 3, 0, 0, 0, 0, 0, 0, 0, 2>>),
      Hex64(<<0, 6, 5, 11, 5, 9, 5, 11, 3, 0, 0, 0, 0, 0, 0, 2>>),
      Hex64(<<0, 15, 7, 15, 14, 11, 9, 8, 0, 12, 0, 0, 0, 0, 0, 3>>),
      Hex64(<<10, 12, 1, 9, 6, 13, 6, 5, 6, 12, 12, 0, 0, 0, 0, 3>>),
      Hex64(<<10, 3, 3, 13, 15, 15, 10, 14, 6, 0, 3, 0, 0, 0, 0, 3>>),
      Hex64(<<13, 6, 11, 0, 6, 5, 11, 5, 9, 5, 11, 3, 0, 0, 0, 3>>),
      Hex64(<<13, 15, 8, 12, 15, 7, 15, 14, 11, 9, 8, 0, 12, 0, 0, 4>>),
      Hex64(<<3, 11, 5, 10, 12, 1, 9, 6, 13, 6, 5, 6, 12, 12, 0, 4>>),
      Hex64(<<3, 8, 7, 14, 3, 3, 13, 15, 15, 10, 14, 6, 0, 3, 0, 4>>),
      Hex64(<<14, 12, 14, 13, 6, 11, 0, 6, 5, 11, 5, 9, 5, 11, 3, 4>>),
      Hex64(<<14, 3, 14, 1, 15, 8, 12, 15, 7, 15, 14, 11, 9, 8, 0, 9>>),
      Hex64(<<6, 11, 11, 3, 11, 5, 10, 12, 1, 9, 6, 13, 6, 5, 6, 9>>),
      Hex64(<<11, 11, 8, 15, 8, 7, 14, 3, 3, 13, 15, 15, 10, 14, 6, 5>>),
      Hex64(<<8, 0, 10, 14, 12, 14, 13, 6, 11, 0, 6, 5, 11, 5, 9, 0>>),
      Hex64(<<12, 1, 14, 14, 3, 14, 1, 15, 8, 12, 15, 7, 15, 14, 11, 15>>),
      Hex64(<<2, 6, 0, 2, 11, 11, 3, 11, 5, 10, 12, 1, 9, 6, 13, 0>>),
      Hex64(<<12, 11, 0, 7, 11, 8, 15, 8, 7, 14, 3, 3, 13, 15, 15, 12>>),
      Hex64(<<3, 4, 9, 8, 0, 10, 14, 12, 14, 13, 6, 11, 0, 6, 5, 13>>),
      Hex64(<<8, 11, 2, 12, 1, 14, 14, 3, 14, 1, 15, 8, 12, 15, 7, 8>>),
      Hex64(<<5, 4, 13, 2, 6, 0, 2, 11, 11, 3, 11, 5, 10, 12, 1, 14>>),
      Hex64(<<4, 10, 2, 12, 11, 0, 7, 11, 8, 15, 8, 7, 14, 3, 3, 10>>),
      Hex64(<<9, 7, 5, 3, 4, 9, 8, 0, 10, 14, 12, 14, 13, 6, 11, 7>>)>>

(***************************************************************************)
(* The 80-bit key schedule of PRESENT on an 80-bit register, stated for    *)
(* claim C16; generate_round_keys_80 does not use these definitions.       *)
(***************************************************************************)
\* the 80-bit register holding the key bytes least-significant-byte-first
Register80(bytes) == Bits([k \in 1..80 |-> (bytes[((k - 1) \div 8) + 1] \div Pow2((k - 1) % 8)) % 2])

\* the top 64 bits of the register
Top64Of80(reg) == Bits([k \in 1..64 |-> reg[k + 16]])

\* rotate the 80-bit register left by 61
Rotate80(reg) == Bits([k \in 1..80 |-> reg[((k - 1 + 80 - 61) % 80) + 1]])

\* apply the S-box to the top nibble (bits 79..76)
SboxTop80(reg) ==
    LET v == reg[77] + 2 * reg[78] + 4 * reg[79] + 8 * reg[80]
    IN  Bits([k \in 1..80 |-> IF k >= 77 THEN (S_BOX[v + 1] \div Pow2(k - 77)) % 2 ELSE reg[k]])

\* XOR the counter c in at bit offset 15
Salt80(reg, c) ==
    Bits([k \in 1..80 |-> IF k >= 16 /\ k <= 22 THEN (reg[k] + (c \div Pow2(k - 16))) % 2
                          ELSE reg[k]])

RECURSIVE Schedule80(_, _, _)
Schedule80(reg, i, keys) ==
    IF i > 32 THEN keys
    ELSE LET next == Salt80(SboxTop80(Rotate80(reg)), i)
             more == Append(keys, Top64Of80(reg))
         IN  IF Len(next) = 80 /\ Len(more) = i THEN Schedule80(next, i + 1, more) ELSE more

(***************************************************************************)
(* C16 as stated: for every 10-byte key, round key i of the 80-bit         *)
(* schedule is the top 64 bits of the 80-bit key register, the key bytes   *)
(* taken least-significant-byte-first: round key 0 is the most significant *)
(* 64 bits of the key, each later one the top 64 bits after rotating the   *)
(* register left by 61, applying the S-box to its top nibble and XORing    *)
(* the 1-indexed round counter at bit offset 15; for the all-zero key the  *)
(* round keys are the ROUND_KEYS_80 fixture.                               *)
(***************************************************************************)
C16_RoundKeys80AreTopOfRegister ==
    (ppc \in {"ready", "encrypted", "decrypted"} /\ Len(key) = 10) =>
        /\ round_keys = Schedule80(Register80(key), 1, <<>>)
        /\ key = PatternBytes(0, 10) => round_keys = ROUND_KEYS_80

(***************************************************************************)
(* The 128-bit key schedule of PRESENT, stated for claim C17;              *)
(* generate_round_keys_128 does not use these definitions.                 *)
(***************************************************************************)
\* the 128-bit register holding the key bytes least-significant-byte-first
Register128(bytes) ==
    Bits([k \in 1..128 |-> (bytes[((k - 1) \div 8) + 1] \div Pow2((k - 1) % 8)) % 2])

\* the top 64 bits of the register
Top64Of128(reg) == Bits([k \in 1..64 |-> reg[k + 64]])

\* rotate the 128-bit register left by 61
Rotate128(reg) == Bits([k \in 1..128 |-> reg[((k - 1 + 128 - 61) % 128) + 1]])

\* apply the S-box to the top two nibbles (bits 127..124 and 123..120)
SboxTop128(reg) ==
    LET hi == reg[125] + 2 * reg[126] + 4 * reg[127] + 8 * reg[128]
        lo == reg[121] + 2 * reg[122] + 4 * reg[123] + 8 * reg[124]
    IN  Bits([k \in 1..128 |->
                IF k >= 125 THEN (S_BOX[hi + 1] \div Pow2(k - 125)) % 2
                ELSE IF k >= 121 THEN (S_BOX[lo + 1] \div Pow2(k - 121)) % 2
                ELSE reg[k]])

\* XOR the counter c in at bit offset 62
Salt128(reg, c) ==
    Bits([k \in 1..128 |-> IF k >= 63 /\ k <= 69 THEN (reg[k] + (c \div Pow2(k - 63))) % 2
                           ELSE reg[k]])

RECURSIVE Schedule128(_, _, _)
Schedule128(reg, i, keys) ==
    IF i > 32 THEN keys
    ELSE LET next == Salt128(SboxTop128(Rotate128(reg)), i)
             more == Append(keys, Top64Of128(reg))
         IN  IF Len(next) = 128 /\ Len(more) = i THEN Schedule128(next, i + 1, more) ELSE more

(***************************************************************************)
(* C17: for every 16-byte key the 128-bit schedule gives exactly 32 round  *)
(* keys, round key i being the top 64 bits of the key state (round key 0:  *)
(* key bytes 8..15 read little-endian); each update rotates the state left *)
(* by 61, replaces only the top two nibbles by their S-box images and XORs *)
(* the 1-indexed round counter in at bit offset 62; for the all-zero key   *)
(* the round keys are the ROUND_KEYS_128 fixture.                          *)
(***************************************************************************)
C17_RoundKeys128AreTopOfRegister ==
    (ppc \in {"ready", "encrypted", "decrypted"} /\ Len(key) = 16) =>
        /\ Len(round_keys) = 32
        /\ round_keys = Schedule128(Register128(key), 1, <<>>)
        /\ round_keys[1] = Bits([k \in 1..64 |->
                                   (key[9 + ((k - 1) \div 8)] \div Pow2((k - 1) % 8)) % 2])
        /\ key = PatternBytes(0, 16) => round_keys = ROUND_KEYS_128

\* a key of mixed bytes
C17_Witness ==
    /\ ppc = "ready" /\ Len(key) = 16
    /\ key[1] # key[16] /\ key[9] \notin {0, 255}
    /\ Len(round_keys) = 32 /\ round_keys[1] # round_keys[2]
    /\ round_keys[32] = Schedule128(Register128(key), 1, <<>>)[32]

\* the published vectors of the crate's tests: key length, key byte, plaintext
\* byte, ciphertext
KnownVectors ==
    {[n |-> 10, k |-> 0,   p |-> 0,   c |-> Hex64(<<5, 5, 7, 9, 12, 1, 3, 8, 7, 11, 2, 2, 8, 4, 4, 5>>)],
     [n |-> 16, k |-> 0,   p |-> 0,   c |-> Hex64(<<9, 6, 13, 11, 7, 0, 2, 10, 2, 14, 6, 9, 0, 0, 10, 15>>)],
     [n |-> 16, k |-> 0,   p |-> 255, c |-> Hex64(<<3, 12, 6, 0, 1, 9, 14, 5, 14, 5, 14, 13, 13, 5, 6, 3>>)],
     [n |-> 16, k |-> 255, p |-> 0,   c |-> Hex64(<<1, 3, 2, 3, 8, 12, 7, 1, 0, 2, 7, 2, 10, 5, 13, 8>>)],
     [n |-> 16, k |-> 255, p |-> 255, c |-> Hex64(<<6, 2, 8, 13, 9, 15, 11, 13, 4, 2, 1, 8, 14, 5, 11, 4>>)]}

\* the cipher was run on the key and the plaintext of vector v
RunsVector(v) ==
    /\ key = Bits([i \in 1..v.n |-> v.k])
    /\ block = from_le_bytes(Bits([i \in 1..8 |-> v.p]))

(***************************************************************************)
(* C18: encrypt_block reproduces the published vectors (all-zero 80-bit    *)
(* key: 0 -> 0x5579c1387b228445; all-zero 128-bit key: 0 ->                *)
(* 0x96db702a2e6900af, !0 -> 0x3c6019e5e5edd563; all-0xff 128-bit key:     *)
(* 0 -> 0x13238c710272a5d8, !0 -> 0x628d9fbd4218e5b4), and decrypt_block   *)
(* maps each of these ciphertexts back to its plaintext.                   *)
(***************************************************************************)
C18_KnownVectors ==
    \A v \in KnownVectors :
        RunsVector(v) =>
            /\ ppc \in {"encrypted", "decrypted"} => ct = v.c
            /\ ppc = "decrypted" => pt = from_le_bytes(Bits([i \in 1..8 |-> v.p]))

\* the last vector, encrypted and decrypted
C18_Witness ==
    /\ ppc = "decrypted"
    /\ key = Bits([i \in 1..16 |-> 255])
    /\ block = Bits([i \in 1..64 |-> 1])
    /\ ct = Hex64(<<6, 2, 8, 13, 9, 15, 11, 13, 4, 2, 1, 8, 14, 5, 11, 4>>)
    /\ pt = block

\* the store differs from the valid empty store in exactly one byte, which lies
\* in the version string (buffer offsets 20..147)
OneVersionStringByteChanged ==
    LET empty == build_pds(<<>>)
        changed == {i \in 1..Len(empty) : pds[i] # empty[i]}
    IN  /\ Len(pds) = Len(empty)
        /\ Cardinality(changed) = 1
        /\ \A i \in changed : i - 1 >= 20 /\ i - 1 <= 147

(***************************************************************************)
(* C19: starting from an otherwise valid empty store (header_size 148),    *)
(* changing any single byte of the version string (buffer offsets 20..147) *)
(* to a different value makes validate_header return InvalidCrc.           *)
(***************************************************************************)
C19_VersionStringIsCrcCovered ==
    (pc = "validated" /\ OneVersionStringByteChanged) =>
        /\ validated.tag = "Err"
        /\ validated.error.kind = "InvalidCrc"

\* the last byte of the version string is changed
C19_Witness ==
    /\ pc = "validated" /\ OneVersionStringByteChanged
    /\ pds[148] = 255
    /\ validated.tag = "Err" /\ validated.error.kind = "InvalidCrc"

\* the offset a walker that has returned was entering: the link of the last
\* descriptor header it read, or the first_descriptor_offset it was given
LinkFollowed ==
    IF HeaderReads # <<>> THEN LeU32(pds, HeaderReads[Len(HeaderReads)][1] + 12)
    ELSE IF HeaderFromStore THEN LeU32(pds, 16)
    ELSE next_offset

\* the offset of the last descriptor header a walker read
LastHeaderRead == HeaderReads[Len(HeaderReads)][1]

\* what each error of validate_header carries
HeaderErrorCarriesValues(e) ==
    /\ e.kind = "InvalidMagic" =>
          e.found = LeU32(pds, 0) /\ e.expected = <<20548, 21297>>
    /\ e.kind = "InvalidVersion" =>
          e.found = LeU32(pds, 12) /\ e.expected = <<0, 1>>
    /\ e.kind = "InvalidHeaderSize" =>
          e.found = LeU32(pds, 4) /\ e.expected = <<0, 148>>
    /\ e.kind = "InvalidCrc" =>
          /\ e.found = LeU32(pds, 8)
          /\ e.computed = ReferenceCrc(BytesAt(pds, 12, ToInt(LeU32(pds, 4)) - 12))

\* what each error of a walker carries
WalkErrorCarriesValues(e) ==
    /\ e.kind \in {"DescriptorOutOfBounds", "DescriptorLoop"} =>
          e.offset = LinkFollowed /\ e.offset = next_offset
    /\ e.kind = "InvalidDescriptorHeaderSize" =>
          /\ HeaderReads # <<>> /\ LastHeaderRead = ToInt(next_offset)
          /\ e.found = LeU32(pds, LastHeaderRead) /\ e.expected = <<0, 32>>
    /\ e.kind = "PayloadOutOfBounds" =>
          /\ HeaderReads # <<>> /\ LastHeaderRead = ToInt(next_offset)
          /\ e.offset = LeU32(pds, LastHeaderRead + 4)
          /\ e.size = LeU32(pds, LastHeaderRead + 8)

(***************************************************************************)
(* C20: every PdsError carries the offending and the expected or computed  *)
(* value of the failed check: InvalidMagic the magic field and 0x50445331, *)
(* InvalidVersion the version field and 1, InvalidHeaderSize the           *)
(* header_size field and 148, InvalidCrc the stored header_crc and the CRC *)
(* over bytes [12, header_size), DescriptorOutOfBounds and DescriptorLoop  *)
(* the offset of the descriptor being entered, InvalidDescriptorHeaderSize *)
(* that descriptor's header_size and 32, PayloadOutOfBounds that           *)
(* descriptor's payload_offset and payload_size.                           *)
(***************************************************************************)
C20_ErrorsCarryValues ==
    /\ (pc = "validated" /\ validated.tag = "Err") => HeaderErrorCarriesValues(validated.error)
    /\ (pc = "returned" /\ result.tag = "Err") => WalkErrorCarriesValues(result.error)

\* for_each_descriptor has returned PayloadOutOfBounds on a store whose header
\* was accepted
C20_Witness ==
    /\ ForEachReturned /\ validated.tag = "Ok"
    /\ result.tag = "Err" /\ result.error.kind = "PayloadOutOfBounds"
    /\ result.error.offset # result.error.size

(***************************************************************************)
(* C21: otp_digest called with a buffer whose length is not a multiple of  *)
(* 8 aborts on its assertion and returns no digest value (it neither       *)
(* truncates nor pads the trailing bytes); otp_digest_iter has no such     *)
(* restriction and returns a digest for any number of blocks.              *)
(***************************************************************************)
C21_DigestAssertsWholeWords ==
    /\ (digest # NotCalled /\ Len(data) % 8 # 0) => digest = Panicked
    /\ (digest # NotCalled /\ Len(data) % 8 = 0) => digest.state = "ok"
    /\ digest_iter # NotCalled =>
          /\ digest_iter.state = "ok"
          /\ Len(digest_iter.value) = 64

\* a buffer of one word and three trailing bytes: otp_digest has aborted,
\* otp_digest_iter over the one word has returned
C21_Witness ==
    /\ Len(data) = 11 /\ Len(blocks) = 1
    /\ digest = Panicked
    /\ digest_iter.state = "ok"

\* the round keys of the 128-bit cipher whose key register is the u128 k
\* (register bit b is bit b of k, so that its bytes are k's little-endian bytes)
RoundKeysOfU128(k) == Schedule128(k, 1, <<>>)

(***************************************************************************)
(* C22: for every 64-bit d and 128-bit key k, otp_scramble(d, k) is        *)
(* encrypt_block(d) and otp_unscramble(d, k) is decrypt_block(d) of the    *)
(* 128-bit cipher keyed with k's 16 little-endian bytes, so                *)
(* otp_unscramble(otp_scramble(d, k), k) = d; 0x0123456789abcdef under key *)
(* 0x0123456789abcdef0123456789abcdef scrambles to 0x0e9d28685e671dd6.     *)
(***************************************************************************)
C22_ScrambleIsKeyedCipher ==
    LET rks == RoundKeysOfU128(otp_key)
        scrambles == opc = "scrambled" \/ (opc = "unscrambled" /\ unscramble_arg # otp_data)
    IN  /\ scrambles => scrambled = encrypt_block(rks, otp_data)
        /\ opc = "unscrambled" => unscrambled = decrypt_block(rks, unscramble_arg)
        /\ (opc = "unscrambled" /\ unscramble_arg = scrambled /\ scrambled # otp_data) =>
              unscrambled = otp_data
        /\ (scrambles /\ otp_data = TestWord /\ otp_key = TestWord \o TestWord) =>
              scrambled = Hex64(<<0, 14, 9, 13, 2, 8, 6, 8, 5, 14, 6, 7, 1, 13, 13, 6>>)

\* the word and the key of the test, scrambled and unscrambled again
C22_Witness ==
    /\ opc = "unscrambled"
    /\ otp_data = TestWord /\ otp_key = TestWord \o TestWord
    /\ scrambled = Hex64(<<0, 14, 9, 13, 2, 8, 6, 8, 5, 14, 6, 7, 1, 13, 13, 6>>)
    /\ unscramble_arg = scrambled
    /\ unscrambled = otp_data

\* the callback has answered "stop": it stops at its stop_at-th invocation
CallbackAnsweredStop == stop_at > 0 /\ Len(calls) >= stop_at

(***************************************************************************)
(* C23: when the callback returns false for a descriptor,                  *)
(* for_each_descriptor returns Ok immediately: the callback is not invoked *)
(* again and no later descriptor is read or validated, so a loop, an       *)
(* out-of-bounds offset or an over-long tail after the stopping descriptor *)
(* is not reported.                                                        *)
(***************************************************************************)
C23_StopReturnsOkAtOnce ==
    (uuid = <<>> /\ pc \in {"for_each", "returned"} /\ CallbackAnsweredStop) =>
        /\ pc = "returned"
        /\ result = Ok(<<>>)
        /\ Len(calls) = stop_at
        /\ Len(HeaderReads) = stop_at
        /\ iterations = stop_at

\* the callback stopped at the first descriptor, whose link points backwards
C23_Witness ==
    /\ ForEachReturned /\ stop_at = 1 /\ Len(calls) = 1
    /\ result = Ok(<<>>)
    /\ max_descriptors = 1
    /\ LinkFollowed # U32Zero
    /\ U32Le(LinkFollowed, U32Of(LastHeaderRead))

\* the checks of one traversal step, evaluated on the locals of the step that
\* for_each_descriptor was in when it returned and on the bytes of the store
StepCapFails == count >= max_descriptors

StepForwardFails ==
    /\ count > 0
    /\ \/ next_offset[1] < prev_offset[1]
       \/ next_offset[1] = prev_offset[1] /\ next_offset[2] <= prev_offset[2]

StepHeaderBoundsFail == next_offset[1] > 0 \/ next_offset[2] + 32 > Len(pds)

StepHeaderSizeFails ==
    LET size == LeU32(pds, next_offset[2])
    IN  size[1] = 0 /\ size[2] < 32

StepPayloadBoundsFail ==
    LET offset == LeU32(pds, next_offset[2] + 4)
        size   == LeU32(pds, next_offset[2] + 8)
    IN  offset[1] > 0 \/ size[1] > 0 \/ offset[2] + size[2] > Len(pds)

\* the error of the first failing check in the order cap, forward-only,
\* descriptor-header bounds, header_size, payload bounds
FirstFailingStepCheck ==
    IF StepCapFails THEN "MaxDescriptorsExceeded"
    ELSE IF StepForwardFails THEN "DescriptorLoop"
    ELSE IF StepHeaderBoundsFail THEN "DescriptorOutOfBounds"
    ELSE IF StepHeaderSizeFails THEN "InvalidDescriptorHeaderSize"
    ELSE IF StepPayloadBoundsFail THEN "PayloadOutOfBounds"
    ELSE "none"

(***************************************************************************)
(* C24: in each traversal step of for_each_descriptor the checks are       *)
(* applied in the order cap (MaxDescriptorsExceeded), forward-only         *)
(* (DescriptorLoop, skipped for the first descriptor), descriptor-header   *)
(* bounds (DescriptorOutOfBounds), descriptor header_size                  *)
(* (InvalidDescriptorHeaderSize), payload bounds (PayloadOutOfBounds), and *)
(* only the first failing check is reported: a backward pointer met with   *)
(* the cap reached gives MaxDescriptorsExceeded, an undersized header_size *)
(* with an out-of-bounds payload gives InvalidDescriptorHeaderSize.        *)
(***************************************************************************)
C24_FirstFailingStepCheck ==
    (ForEachReturned /\ next_offset # U32Zero) =>
        IF FirstFailingStepCheck = "none" THEN result = Ok(<<>>)
        ELSE result.tag = "Err" /\ result.error.kind = FirstFailingStepCheck

\* a descriptor with both an undersized header_size and an out-of-bounds
\* payload was entered below the cap
C24_Witness ==
    /\ ForEachReturned /\ next_offset # U32Zero
    /\ ~StepCapFails /\ ~StepForwardFails /\ ~StepHeaderBoundsFail
    /\ StepHeaderSizeFails /\ StepPayloadBoundsFail
    /\ result.tag = "Err" /\ result.error.kind = "InvalidDescriptorHeaderSize"

\* the number of descriptors for_each_descriptor passes before it fails: those
\* of the walked chain, or max_descriptors of them when the cap comes first
DescriptorsBeforeError ==
    LET n == Len(WalkedChain.offsets)
    IN  IF max_descriptors < n THEN max_descriptors ELSE n

(***************************************************************************)
(* C25: for_each_descriptor does not pre-validate the chain: when it       *)
(* returns an error detected while entering the k-th descriptor in chain   *)
(* order (k counted from 0), the callback has been invoked exactly k       *)
(* times, once for each preceding descriptor in order; in particular       *)
(* MaxDescriptorsExceeded is returned only after exactly max_descriptors   *)
(* callback invocations.                                                   *)
(***************************************************************************)
C25_CallbackRunsBeforeError ==
    (ForEachReturned /\ HeaderFromStore /\ result.tag = "Err") =>
        /\ Len(calls) = DescriptorsBeforeError
        /\ Len(calls) = count
        /\ \A i \in 1..Len(calls) : calls[i] = ViewAt(pds, WalkedChain.offsets[i])
        /\ result.error.kind = "MaxDescriptorsExceeded" => Len(calls) = max_descriptors

\* the third descriptor of a store is rejected after two callback invocations
C25_Witness ==
    /\ ForEachReturned /\ HeaderFromStore
    /\ result.tag = "Err" /\ result.error.kind = "InvalidDescriptorHeaderSize"
    /\ max_descriptors > 2
    /\ Len(calls) = 2
    /\ calls[1] # calls[2]

\* the number of leading bytes validate_header may depend on: the header
\* struct, extended to header_size when that lies within the buffer
CoveredLength(buf) ==
    LET size == LeU32(buf, 4)
    IN  IF Len(buf) < 148 THEN Len(buf)
        ELSE IF size[1] > 0 \/ size[2] > Len(buf) THEN 148
        ELSE IF size[2] > 148 THEN size[2]
        ELSE 148

\* the two buffers have equal length and agree on bytes [0, 148) and on
\* bytes [148, header_size)
AgreeOnHeader ==
    /\ Len(pds) = Len(pds_b)
    /\ \A i \in 1..CoveredLength(pds) : pds[i] = pds_b[i]

ByteOfWords(ws, b) ==
    LET word == ws[(b \div 4) + 1]
        half == IF b % 4 < 2 THEN word[2] ELSE word[1]
    IN  IF b % 2 = 0 THEN half % 256 ELSE half \div 256

\* what page p holds after the first n processed requests: the bytes of the most
\* recent successful Write to p, 0xFF if p was erased since, else what the
\* flash file was created with
RECURSIVE PageAfter(_, _)
PageAfter(p, n) ==
    IF n = 0 THEN (IF p = U32Zero THEN InitialContent ELSE Bits([b \in 1..256 |-> 255]))
    ELSE LET e == log[n]
             hit == e.status = "CmdComplete" /\ e.page_num = p
         IN  IF hit /\ e.cmd = <<0, 2>> THEN Bits([b \in 1..256 |-> ByteOfWords(e.words, b - 1)])
             ELSE IF hit /\ e.cmd = <<0, 3>> THEN Bits([b \in 1..256 |-> 255])
             ELSE PageAfter(p, n - 1)

\* the last processed request, when the mailbox still holds its answer
Answered == log # <<>> /\ log[Len(log)].request = requests
LastProcessed == log[Len(log)]

\* a command with page_num < NUM_PAGES and size word 256
InRange(e) == e.page_num[1] < 4 /\ e.size = <<0, 256>>

ProcessingStep == cpc = "poll" /\ cpc' = "wait"

\* the step of a poll that returns at once
IdlePollStep == cpc = "poll" /\ last_poll # "idle" /\ last_poll' = "idle"

\* the command code is not 1, 2 or 3, or page_num >= NUM_PAGES, or the size
\* word is not 256
RejectedRequest ==
    \/ cmd \notin {<<0, 1>>, <<0, 2>>, <<0, 3>>}
    \/ sram[1][1] >= 4
    \/ sram[2] # <<0, 256>>

(***************************************************************************)
(* C28: when poll_mailbox_and_process handles a request whose command code *)
(* is not 1, 2 or 3, whose page_num >= NUM_PAGES, or whose size word is    *)
(* not 256, it sets the target status to CmdFailure with the Done bit set, *)
(* leaves the flash contents, the mailbox SRAM and the dlen register       *)
(* unchanged, and leaves the busy flag false; a poll that finds the        *)
(* execute register not SET changes no register and no flash content.      *)
(***************************************************************************)
C28_RejectedRequestChangesNothing ==
    [][/\ (ProcessingStep /\ RejectedRequest) =>
            /\ target_status' = [status |-> "CmdFailure", done |-> TRUE]
            /\ flash' = flash /\ sram' = sram /\ dlen' = dlen
            /\ busy' = FALSE
       /\ (IdlePollStep /\ execute # "SET") =>
            /\ execute' = execute /\ cmd' = cmd /\ dlen' = dlen /\ sram' = sram
            /\ target_status' = target_status
            /\ flash' = flash]_vars

\* a Read was answered, and then a request with a bad size word was rejected:
\* the mailbox still holds the page and its length
C28_Witness ==
    /\ Len(log) = 2 /\ Answered
    /\ log[1].cmd = <<0, 1>> /\ log[1].status = "CmdComplete"
    /\ log[2].size = <<0, 255>> /\ log[2].status = "CmdFailure"
    /\ target_status = [status |-> "CmdFailure", done |-> TRUE]
    /\ dlen = <<0, 256>>
    /\ sram[3] # <<0, 0>>
    /\ busy = FALSE

(***************************************************************************)
(* C29: each mailbox request (one continuous period during which the       *)
(* execute register is SET) is processed by the flash controller at most   *)
(* once: after processing a request, the polling loop does not process     *)
(* again until execute has gone from SET to CLEAR and been SET again.      *)
(***************************************************************************)
C29_RequestProcessedOnce == processed <= 1

(***************************************************************************)
(* C30: across any sequence of start() and stop() calls at most one        *)
(* vdm_responder loop is live at any time: start() returns StartError and  *)
(* spawns nothing while the running flag is true, and when a start() does  *)
(* spawn a responder, no responder of an earlier start() is still live.    *)
(***************************************************************************)
C30_AtMostOneResponder ==
    /\ Cardinality(LiveResponders(tasks)) <= 1
    /\ last_start.was_running => last_start.result = "StartError" /\ last_start.spawned = 0
    /\ last_start.spawned # 0 => last_start.live_before = 0

\* a second start() has spawned a responder after the first one's has exited
C30_Witness ==
    /\ starts >= 2
    /\ last_start.spawned # 0
    /\ handled >= 1
    /\ Cardinality(LiveResponders(tasks)) = 1

=============================================================================
